---- MODULE Spec2Model ----
(***************************************************************************)
(* release-kit: the deploy command family (crates/cli/src/commands/       *)
(* deploy.rs).  One invocation of the CLI at a time runs `publish` or     *)
(* `teardown` against one remote account; the remote project, the audio   *)
(* bucket, its objects and its incomplete multipart uploads persist from  *)
(* one invocation to the next.                                             *)
(***************************************************************************)
EXTENDS Naturals, Integers, Sequences, FiniteSets, TLC

\* ------------------------------------------------------------------ bounds
\* tracks of the album manifest (album.tracks)
MaxTracks == 2
\* largest explicit --concurrency value drawn (0..MaxConcurrency, or none)
MaxConcurrency == 2
\* incomplete multipart uploads another client may have left in the bucket
MaxMultiparts == 1
\* longest artist name and longest album title given to derive_project_name
MaxArtistLen == 3
MaxTitleLen == 1

\* ------------------------------------------------------- program constants
\* `for attempt in 1..=5`
MaxAttempts == 5
\* `concurrency.unwrap_or(3)`
DefaultConcurrency == 3
\* validate_api_token: `token.len() < 20`
MinApiTokenLen == 20
\* validate_account_id: `account_id.len() != 32`
AccountIdLen == 32
\* validate_r2_access_key: `key.len() < 10`
MinAccessKeyLen == 10
\* validate_domain: `label.len() > 63`
MaxLabelLen == 63

Tracks == 1..MaxTracks
MultipartIds == 1..MaxMultiparts
\* Option<usize>: <<>> is None, <<n>> is Some(n)
ConcurrencyOptions == {<<>>} \cup {<<n>> : n \in 0..MaxConcurrency}

VARIABLES
    cmd,                    \* the command being run: "idle", "publish", "status", "teardown", ..
    pc,                     \* where the command is
    result,                 \* what the command returned: "none", "ok", or the error
    force,                  \* the --force flag of the invocation
    concurrency,            \* publish's concurrency: Option<usize>
    log,                    \* remote calls and prompts issued by this run, in order
    warnings,               \* warnings printed by this run
    project_exists,         \* let project_exists
    bucket_exists,          \* let bucket_exists
    base_domain,            \* config.cloudflare.base_domain as read: "unread", "none", "some"
    cdn_url,                \* let cdn_url: "unset", "custom", "default"
    max_concurrent_uploads, \* let max_concurrent_uploads
    permits,                \* permits available in the semaphore
    spawnIdx,               \* the track the spawn loop is at
    audio_file_exists,      \* per track: what audio_file.exists() returned
    upload_tasks,           \* Vec of spawned task handles, as track numbers
    task,                   \* per track: the spawned task's state and attempt
    joinIdx,                \* the handle the join loop is awaiting
    successful_uploads,     \* let mut successful_uploads
    failed_uploads,         \* let mut failed_uploads
    all_keys,               \* empty_r2_bucket: keys listed and not yet deleted
    uploads,                \* empty_r2_bucket: multipart uploads listed, not yet visited
    rProject,               \* remote: the Pages project exists
    rBucket,                \* remote: the audio bucket exists
    rObjects,               \* remote: object keys held by the bucket
    rMultiparts,            \* remote: incomplete multipart uploads of the bucket
    album,                  \* the manifest's album.artist.name and album.metadata.title
    project_name,           \* let project_name
    input,                  \* teardown: the line read at the confirmation prompt
    config_file,            \* the credentials file: <<>> when absent, else <<its content>>
    existing,               \* configure: let existing = load_config()?
    api_token,              \* configure: let api_token
    account_id,             \* configure: let account_id
    r2_access_key_id,       \* configure: let r2_access_key_id
    r2_secret_access_key,   \* configure: let r2_secret_access_key
    base_domain_input,      \* configure: let base_domain_input: Option<String>
    raw,                    \* parse_album_toml_str: the manifest as written (RawConfig)
    parsed                  \* parse_album_toml_str: <<>> before it returns, else <<Result<Album>>>

remote == <<rProject, rBucket, rObjects, rMultiparts>>
pool == <<max_concurrent_uploads, permits, spawnIdx, audio_file_exists, upload_tasks, task, joinIdx,
          successful_uploads, failed_uploads>>
flags == <<project_exists, bucket_exists, base_domain, cdn_url>>
tdown == <<all_keys, uploads>>
args == <<force, concurrency>>
names == <<album, project_name, input>>
draft == <<existing, api_token, account_id, r2_access_key_id, r2_secret_access_key,
           base_domain_input>>
conf == <<config_file, draft>>
manifest == <<raw, parsed>>
vars == <<cmd, pc, result, args, names, conf, manifest, log, warnings, flags, pool, tdown, remote>>

\* ------------------------------------------------------------------ helpers
\* st: where the spawned task is; attempt: the loop variable of its retry loop;
\* sleep: the seconds of the backoff sleep it is in; ret: what it returned;
\* puts: the outcomes of the PUT requests it has made, in order
NoTask == [st |-> "NoTask", attempt |-> 0, sleep |-> 0, ret |-> <<>>, puts |-> <<>>]

Terminal == {"Succeeded", "Failed"}
HoldsPermit == {"Reading", "InFlight", "RetryWait"}

\* A track's file path in the manifest is a directory and a file name.  The
\* tracks of a manifest are each in a directory of their own, their files
\* named differently (cd1/01.flac, cd2/02.flac) or alike (cd1/01.flac,
\* cd2/01.flac).
DistinctNames == [t \in Tracks |-> [dir |-> t, name |-> t]]
SameNames == [t \in Tracks |-> [dir |-> t, name |-> 1]]

\* path.join(&track.file)
TrackFile(t) == album.tracks[t]

\* audio_file.file_name(): the last component of the path
file_name(path) == path.name

\* format!("audio/{}", filename)
r2_key(t) == <<"audio", file_name(TrackFile(t))>>

\* concurrency.unwrap_or(3)
unwrap_or(c, d) == IF c = <<>> THEN d ELSE c[1]

\* ------------------------------------------------------------------ strings
\* A string is the sequence of its characters.  A printable ASCII character is
\* written as itself, any other by its name: LF is the line feed, NBSP the
\* no-break space, E_ACUTE and e_acute the letter e with acute accent in
\* upper and lower case, KELVIN the Kelvin sign U+212A.
AsciiLowercase == {"a", "b", "e", "k", "n", "o", "y", "z"}
AsciiUppercase == {"A", "N", "Y", "Z"}
AsciiDigit == {"7"}
AsciiHexdigit == {"a", "b", "e", "A", "7"}
Whitespace == {" ", "LF", "NBSP"}

\* char::to_lowercase, as str::to_lowercase applies it to each character
to_lowercase_char(c) ==
    CASE c = "A" -> "a"
      [] c = "N" -> "n"
      [] c = "Y" -> "y"
      [] c = "Z" -> "z"
      [] c = "E_ACUTE" -> "e_acute"
      [] c = "KELVIN" -> "k"
      [] OTHER -> c

to_lowercase(s) == [i \in 1..Len(s) |-> to_lowercase_char(s[i])]

\* Variant of is_ascii_alphanumeric: only digits are kept.
is_ascii_digit(c) == c \in AsciiDigit

is_ascii_alphanumeric(c) == c \in AsciiLowercase \cup AsciiUppercase \cup AsciiDigit

is_whitespace(c) == c \in Whitespace

\* .chars().map(|c| ..).filter(|&c| c != '\0').collect::<String>()
RECURSIVE map_filter(_)
map_filter(s) ==
    IF s = <<>> THEN <<>>
    ELSE LET c == Head(s)
             kept == IF is_ascii_alphanumeric(c) THEN <<c>>
                     ELSE IF is_whitespace(c) \/ c = "-" \/ c = "_" THEN <<"-">>
                     ELSE <<>>
         IN kept \o map_filter(Tail(s))

\* str::split(sep): the pieces between the separators, empty pieces included
RECURSIVE split(_, _)
split(s, sep) ==
    IF \A i \in 1..Len(s) : s[i] # sep
    THEN <<s>>
    ELSE LET i == CHOOSE k \in 1..Len(s) :
                      s[k] = sep /\ \A j \in 1..(k - 1) : s[j] # sep
         IN <<SubSeq(s, 1, i - 1)>> \o split(SubSeq(s, i + 1, Len(s)), sep)

\* [&str]::join(sep)
RECURSIVE join(_, _)
join(parts, sep) ==
    IF parts = <<>> THEN <<>>
    ELSE IF Len(parts) = 1 THEN parts[1]
    ELSE parts[1] \o <<sep>> \o join(Tail(parts), sep)

\* the closure `slugify` of derive_project_name
slugify(s) ==
    join(SelectSeq(split(map_filter(to_lowercase(s)), "-"), LAMBDA piece : piece # <<>>),
         "-")

\* format!("{}-{}", slugify(artist), slugify(album))
derive_project_name(artist, title) == slugify(artist) \o <<"-">> \o slugify(title)

\* u8::to_ascii_lowercase, as eq_ignore_ascii_case applies it
to_ascii_lowercase_char(c) == IF c \in AsciiUppercase THEN to_lowercase_char(c) ELSE c

\* str::eq_ignore_ascii_case
eq_ignore_ascii_case(a, b) ==
    /\ Len(a) = Len(b)
    /\ \A i \in 1..Len(a) : to_ascii_lowercase_char(a[i]) = to_ascii_lowercase_char(b[i])

\* str::trim: the string without its leading and trailing whitespace
trim(s) ==
    LET kept == {i \in 1..Len(s) : ~is_whitespace(s[i])}
    IN IF kept = {} THEN <<>>
       ELSE SubSeq(s, CHOOSE i \in kept : \A j \in kept : i <= j,
                      CHOOSE i \in kept : \A j \in kept : j <= i)

\* c repeated n times
Repeat(c, n) == [i \in 1..n |-> c]

\* read_input: the line read from stdin, trimmed
read_input(line) == trim(line)

\* token.chars().all(|c| c.is_ascii_alphanumeric() || c == '_' || c == '-')
validate_api_token(token) ==
    /\ token # <<>>
    /\ ~(Len(token) < MinApiTokenLen)
    /\ \A i \in 1..Len(token) : is_ascii_alphanumeric(token[i]) \/ token[i] \in {"_", "-"}

is_ascii_hexdigit(c) == c \in AsciiHexdigit

validate_account_id(id) ==
    /\ id # <<>>
    /\ ~(Len(id) # AccountIdLen)
    /\ \A i \in 1..Len(id) : is_ascii_hexdigit(id[i])

validate_r2_access_key(key) ==
    /\ key # <<>>
    /\ ~(Len(key) < MinAccessKeyLen)
    /\ \A i \in 1..Len(key) : is_ascii_alphanumeric(key[i])

validate_domain(domain) ==
    /\ domain # <<>>
    /\ \E i \in 1..Len(domain) : domain[i] = "."
    /\ ~(domain[1] = "." \/ domain[Len(domain)] = ".")
    /\ ~(domain[1] = "-" \/ domain[Len(domain)] = "-")
    /\ \A i \in 1..Len(domain) : is_ascii_alphanumeric(domain[i]) \/ domain[i] \in {".", "-"}
    /\ LET labels == split(domain, ".")
       IN \A k \in 1..Len(labels) :
             /\ labels[k] # <<>>
             /\ ~(Len(labels[k]) > MaxLabelLen)
             /\ ~(labels[k][1] = "-" \/ labels[k][Len(labels[k])] = "-")

\* the album of an invocation that has not read its manifest
NoAlbum == [artist |-> <<>>, title |-> <<>>, tracks |-> <<>>]

\* a request goes out through the client, or the operator is prompted
Call(name, ok) == log' = Append(log, [call |-> name, ok |-> ok])
\* the command returns Ok(()) or an error
Return(r) == pc' = "done" /\ result' = r
\* the command goes on to a later statement
Goto(l) == pc' = l /\ result' = result

\* the artist names, titles and track files of the manifests the commands are
\* run on
Albums == {[artist |-> <<"A">>, title |-> <<"b">>, tracks |-> DistinctNames],
           [artist |-> <<"A">>, title |-> <<"b">>, tracks |-> SameNames],
           [artist |-> <<"!">>, title |-> <<"_">>, tracks |-> DistinctNames],
           [artist |-> <<>>, title |-> <<>>, tracks |-> DistinctNames]}

\* Variant of InvalidName: only the empty name is rejected.
InvalidNameEmptyOnly(n) == n = <<>>

\* if project_name.is_empty() || project_name == "-"
InvalidName(n) == n = <<>> \/ n = <<"-">>

\* album.toml is missing or does not parse; or it is read, the project name is
\* derived from it and checked
ParseAlbum(next) ==
    \E o \in {"ok", "album_toml_missing", "parse"} :
        IF o # "ok"
        THEN /\ album' = album
             /\ project_name' = project_name
             /\ Return(o)
        ELSE \E a \in Albums :
                /\ album' = a
                /\ project_name' = derive_project_name(a.artist, a.title)
                /\ IF InvalidName(derive_project_name(a.artist, a.title))
                   THEN Return("invalid_project_name")
                   ELSE Goto(next)

\* load_config()?.context("No Cloudflare configuration found")?
LoadConfig(next) ==
    \E o \in {"ok", "no_config", "config_error"} :
        /\ Call("load_config", o = "ok")
        /\ IF o = "ok" THEN Goto(next) ELSE Return(o)

\* Variant of PromptSkipped: no invocation prompts.
PromptSkippedAlways(f) == TRUE

\* if !force { .. }
PromptSkipped(f) == f

\* the lines an operator may type at publish's prompt
PublishAnswers == {<<"y", "LF">>, <<"Y", "LF">>, <<" ", "y", " ", "LF">>, <<"n", "LF">>,
                   <<"LF">>, <<"y", "a", "LF">>, <<>>}

\* input.trim().eq_ignore_ascii_case("y")
Accepted(line) == eq_ignore_ascii_case(trim(line), <<"y">>)

\* the lines an operator may type at teardown's prompt
TeardownAnswers(name) == {name \o <<"LF">>, <<" ">> \o name \o <<" ", "LF">>,
                          [i \in 1..Len(name) |-> IF name[i] = "a" THEN "A" ELSE name[i]]
                              \o <<"LF">>,
                          name \o <<"-", "LF">>, <<"y", "LF">>, <<"LF">>, <<>>}

\* Variant of Confirmed: any line that is not blank confirms.
ConfirmedAnyLine(line, name) == trim(line) # <<>>

\* !(input.trim() != project_name)
Confirmed(line, name) == trim(line) = name

\* a manifest without liner notes and without tracks, not yet parsed
NoManifest == [syntax |-> "ok", liner_notes |-> <<>>, track |-> <<>>]

InitManifest ==
    /\ raw = NoManifest
    /\ parsed = <<>>

\* configure's locals before its first statement
InitDraft ==
    /\ existing = <<>>
    /\ api_token = <<>>
    /\ account_id = <<>>
    /\ r2_access_key_id = <<>>
    /\ r2_secret_access_key = <<>>
    /\ base_domain_input = <<>>

InitLocals ==
    /\ force = FALSE
    /\ concurrency = <<>>
    /\ log = <<>>
    /\ warnings = {}
    /\ project_exists = FALSE
    /\ bucket_exists = FALSE
    /\ base_domain = "unread"
    /\ cdn_url = "unset"
    /\ max_concurrent_uploads = 0
    /\ permits = 0
    /\ spawnIdx = 1
    /\ audio_file_exists = [t \in Tracks |-> "unvisited"]
    /\ upload_tasks = <<>>
    /\ task = [t \in Tracks |-> NoTask]
    /\ joinIdx = 1
    /\ successful_uploads = 0
    /\ failed_uploads = <<>>
    /\ all_keys = {}
    /\ uploads = {}

Init ==
    /\ cmd = "idle"
    /\ pc = "idle"
    /\ result = "none"
    /\ InitLocals
    /\ album = NoAlbum
    /\ project_name = <<>>
    /\ input = <<>>
    /\ config_file = <<>>
    /\ InitDraft
    /\ InitManifest
    /\ rProject = FALSE
    /\ rBucket = FALSE
    /\ rObjects = {}
    /\ rMultiparts = {}

IsErr(r) == r \notin {"none", "ok"}

\* ------------------------------------------------------- the CLI is invoked
\* main: DeployCommand::Publish
StartPublish ==
    /\ cmd = "idle"
    /\ cmd' = "publish"
    /\ pc' = "p_parse"
    /\ force' \in BOOLEAN
    /\ concurrency' \in ConcurrencyOptions
    /\ UNCHANGED <<result, names, conf, manifest, log, warnings, flags, pool, tdown, remote>>

\* main: DeployCommand::Teardown
StartTeardown ==
    /\ cmd = "idle"
    /\ cmd' = "teardown"
    /\ pc' = "t_parse"
    /\ force' \in BOOLEAN
    /\ concurrency' = concurrency
    /\ UNCHANGED <<result, names, conf, manifest, log, warnings, flags, pool, tdown, remote>>

\* main: DeployCommand::Status
StartStatus ==
    /\ cmd = "idle"
    /\ cmd' = "status"
    /\ pc' = "s_parse"
    /\ UNCHANGED <<result, args, names, conf, manifest, log, warnings, flags, pool, tdown, remote>>

\* The process has exited; the next invocation starts with fresh locals and
\* finds the remote as this one left it.
Exit ==
    /\ pc = "done"
    /\ cmd' = "idle"
    /\ pc' = "idle"
    /\ result' = "none"
    /\ force' = FALSE
    /\ concurrency' = <<>>
    /\ log' = <<>>
    /\ warnings' = {}
    /\ project_exists' = FALSE
    /\ bucket_exists' = FALSE
    /\ base_domain' = "unread"
    /\ cdn_url' = "unset"
    /\ max_concurrent_uploads' = 0
    /\ permits' = 0
    /\ spawnIdx' = 1
    /\ audio_file_exists' = [t \in Tracks |-> "unvisited"]
    /\ upload_tasks' = <<>>
    /\ task' = [t \in Tracks |-> NoTask]
    /\ joinIdx' = 1
    /\ successful_uploads' = 0
    /\ failed_uploads' = <<>>
    /\ all_keys' = {}
    /\ uploads' = {}
    /\ album' = NoAlbum
    /\ project_name' = <<>>
    /\ input' = <<>>
    /\ existing' = <<>>
    /\ api_token' = <<>>
    /\ account_id' = <<>>
    /\ r2_access_key_id' = <<>>
    /\ r2_secret_access_key' = <<>>
    /\ base_domain_input' = <<>>
    /\ UNCHANGED <<remote, config_file, manifest>>

\* Another client of the same account leaves an incomplete multipart upload in
\* the bucket (empty_r2_bucket lists and aborts such uploads).
ForeignMultipartUpload ==
    /\ cmd = "idle"
    /\ rBucket
    /\ \E u \in MultipartIds \ rMultiparts : rMultiparts' = rMultiparts \cup {u}
    /\ UNCHANGED <<cmd, pc, result, args, names, conf, manifest, log, warnings, flags, pool, tdown,
                   rProject, rBucket, rObjects>>

\* ------------------------------------------------------------------ publish
\* album.toml exists, parses, and the derived project name is valid
PublishParse ==
    /\ cmd = "publish" /\ pc = "p_parse"
    /\ ParseAlbum("p_load_config")
    /\ UNCHANGED <<cmd, args, input, conf, manifest, log, warnings, flags, pool, tdown, remote>>

\* load_config()?.context("No Cloudflare configuration found")?
PublishLoadConfig ==
    /\ cmd = "publish" /\ pc = "p_load_config"
    /\ LoadConfig("p_get_project")
    /\ UNCHANGED <<cmd, args, names, conf, manifest, warnings, flags, pool, tdown, remote>>

\* client.get_pages_project(&project_name).await?
PublishGetProject ==
    /\ cmd = "publish" /\ pc = "p_get_project"
    /\ \E ok \in BOOLEAN :
          /\ Call("get_project", ok)
          /\ IF ok
             THEN /\ project_exists' = rProject
                  /\ Goto("p_prompt")
             ELSE /\ project_exists' = project_exists
                  /\ Return("api")
    /\ UNCHANGED <<cmd, args, names, conf, manifest, warnings, bucket_exists, base_domain, cdn_url, pool, tdown, remote>>

\* Variant of PublishPrompt: publish goes on whatever the answer.
PublishPromptIgnored ==
    /\ cmd = "publish" /\ pc = "p_prompt"
    /\ IF PromptSkipped(force)
       THEN /\ log' = log
            /\ Goto("p_get_bucket")
       ELSE \/ /\ Call("prompt", FALSE)
               /\ Return("io")
            \/ \E line \in PublishAnswers :
                  /\ Call("prompt", Accepted(line))
                  /\ Goto("p_get_bucket")
    /\ UNCHANGED <<cmd, args, names, conf, manifest, warnings, flags, pool, tdown, remote>>

\* if !force { read_line; if !input.trim().eq_ignore_ascii_case("y") { return Ok(()) } }
PublishPrompt ==
    /\ cmd = "publish" /\ pc = "p_prompt"
    /\ IF PromptSkipped(force)
       THEN /\ log' = log
            /\ Goto("p_get_bucket")
       ELSE \/ /\ Call("prompt", FALSE)
               /\ Return("io")
            \/ \E line \in PublishAnswers :
                  /\ Call("prompt", Accepted(line))
                  /\ IF Accepted(line) THEN Goto("p_get_bucket") ELSE Return("ok")
    /\ UNCHANGED <<cmd, args, names, conf, manifest, warnings, flags, pool, tdown, remote>>

\* client.get_r2_bucket(&bucket_name).await?
PublishGetBucket ==
    /\ cmd = "publish" /\ pc = "p_get_bucket"
    /\ \E ok \in BOOLEAN :
          /\ Call("get_bucket", ok)
          /\ IF ok
             THEN IF rBucket
                  THEN bucket_exists' = TRUE /\ Goto("p_audio_dir")
                  ELSE bucket_exists' = bucket_exists /\ Goto("p_create_bucket")
             ELSE bucket_exists' = bucket_exists /\ Return("api")
    /\ UNCHANGED <<cmd, args, names, conf, manifest, warnings, project_exists, base_domain, cdn_url, pool, tdown, remote>>

\* Variant of PublishCreateBucket: a creation that fails is tried again.
PublishCreateBucketRetried ==
    /\ cmd = "publish" /\ pc = "p_create_bucket"
    /\ \E ok \in BOOLEAN :
          /\ Call("create_bucket", ok)
          /\ rBucket' = (rBucket \/ ok)
          /\ bucket_exists' = IF ok THEN FALSE ELSE bucket_exists
          /\ IF ok THEN Goto("p_audio_dir") ELSE Goto("p_create_bucket")
    /\ UNCHANGED <<cmd, args, names, conf, manifest, warnings, project_exists, base_domain, cdn_url, pool, tdown,
                   rProject, rObjects, rMultiparts>>

\* None => { client.create_r2_bucket(&bucket_name).await?; false }
PublishCreateBucket ==
    /\ cmd = "publish" /\ pc = "p_create_bucket"
    /\ \E ok \in BOOLEAN :
          /\ Call("create_bucket", ok)
          /\ IF ok
             THEN /\ rBucket' = TRUE
                  /\ bucket_exists' = FALSE
                  /\ Goto("p_audio_dir")
             ELSE /\ rBucket' = rBucket
                  /\ bucket_exists' = bucket_exists
                  /\ Return("api")
    /\ UNCHANGED <<cmd, args, names, conf, manifest, warnings, project_exists, base_domain, cdn_url, pool, tdown,
                   rProject, rObjects, rMultiparts>>

\* the audio directory exists; S3Credentials::new and S3Bucket::new succeed
PublishAudioDir ==
    /\ cmd = "publish" /\ pc = "p_audio_dir"
    /\ \E o \in {"ok", "audio_dir_missing", "s3_setup"} :
          IF o = "ok" THEN Goto("p_semaphore") ELSE Return(o)
    /\ UNCHANGED <<cmd, args, names, conf, manifest, log, warnings, flags, pool, tdown, remote>>

\* let semaphore = Arc::new(Semaphore::new(concurrency.unwrap_or(3)))
PublishSemaphore ==
    /\ cmd = "publish" /\ pc = "p_semaphore"
    /\ max_concurrent_uploads' = unwrap_or(concurrency, DefaultConcurrency)
    /\ permits' = unwrap_or(concurrency, DefaultConcurrency)
    /\ Goto("p_spawn")
    /\ UNCHANGED <<cmd, args, names, conf, manifest, log, warnings, flags, spawnIdx, audio_file_exists, upload_tasks, task, joinIdx,
                   successful_uploads, failed_uploads, tdown, remote>>

\* one iteration of `for track in &album.tracks`: skip a missing file with a
\* warning, return on a path without a file name, else spawn the upload task
PublishSpawn ==
    /\ cmd = "publish" /\ pc = "p_spawn"
    /\ spawnIdx <= MaxTracks
    /\ \E f \in {"exists", "missing", "no_file_name"} :
          /\ IF f = "no_file_name"
             THEN Return("invalid_audio_filename")
             ELSE IF spawnIdx = MaxTracks THEN Goto("p_join") ELSE Goto("p_spawn")
          /\ warnings' = IF f = "missing"
                         THEN warnings \cup {"audio_file_not_found"}
                         ELSE warnings
          /\ task' = IF f = "exists"
                     THEN [task EXCEPT ![spawnIdx].st = "Pending"]
                     ELSE task
          /\ upload_tasks' = IF f = "exists"
                             THEN Append(upload_tasks, spawnIdx)
                             ELSE upload_tasks
          /\ spawnIdx' = IF f = "no_file_name" THEN spawnIdx ELSE spawnIdx + 1
          /\ audio_file_exists' =
                [audio_file_exists EXCEPT ![spawnIdx] = IF f = "missing" THEN "missing"
                                                        ELSE "exists"]
    /\ UNCHANGED <<cmd, args, names, conf, manifest, log, flags, max_concurrent_uploads, permits, joinIdx,
                   successful_uploads, failed_uploads, tdown, remote>>

\* the spawned tasks run while publish is in the spawn loop or awaits them
TasksRun == cmd = "publish" /\ pc \in {"p_spawn", "p_join"}

\* Variant of TaskAcquire: the task starts without waiting for a permit.
TaskAcquireUnbounded(t) ==
    /\ TasksRun
    /\ task[t].st = "Pending"
    /\ permits' = permits - 1
    /\ task' = [task EXCEPT ![t].st = "Reading"]
    /\ UNCHANGED <<cmd, pc, result, args, names, conf, manifest, log, warnings, flags, max_concurrent_uploads,
                   spawnIdx, audio_file_exists, upload_tasks, joinIdx, successful_uploads,
                   failed_uploads, tdown, remote>>

\* let _permit = semaphore_clone.acquire().await.unwrap();
TaskAcquire(t) ==
    /\ TasksRun
    /\ task[t].st = "Pending"
    /\ permits > 0
    /\ permits' = permits - 1
    /\ task' = [task EXCEPT ![t].st = "Reading"]
    /\ UNCHANGED <<cmd, pc, result, args, names, conf, manifest, log, warnings, flags, max_concurrent_uploads,
                   spawnIdx, audio_file_exists, upload_tasks, joinIdx, successful_uploads,
                   failed_uploads, tdown, remote>>

\* Variant of TaskRead: a task whose read fails keeps its permit.
TaskReadKeepsPermit(t) ==
    /\ TasksRun
    /\ task[t].st = "Reading"
    /\ \E ok \in BOOLEAN :
          IF ok
          THEN task' = [task EXCEPT ![t].st = "InFlight", ![t].attempt = 1]
          ELSE task' = [task EXCEPT ![t].st = "Failed",
                                    ![t].ret = <<"Failed to read file for upload">>]
    /\ UNCHANGED <<cmd, pc, result, args, names, conf, manifest, log, warnings, flags, max_concurrent_uploads,
                   permits, spawnIdx, audio_file_exists, upload_tasks, joinIdx, successful_uploads,
                   failed_uploads, tdown, remote>>

\* tokio::fs::read(&audio_file_clone).await.context("Failed to read file for upload")?
TaskRead(t) ==
    /\ TasksRun
    /\ task[t].st = "Reading"
    /\ \E ok \in BOOLEAN :
          IF ok
          THEN /\ task' = [task EXCEPT ![t].st = "InFlight", ![t].attempt = 1]
               /\ permits' = permits
          ELSE /\ task' = [task EXCEPT ![t].st = "Failed",
                                       ![t].ret = <<"Failed to read file for upload">>]
               /\ permits' = permits + 1
    /\ UNCHANGED <<cmd, pc, result, args, names, conf, manifest, log, warnings, flags, max_concurrent_uploads,
                   spawnIdx, audio_file_exists, upload_tasks, joinIdx, successful_uploads,
                   failed_uploads, tdown, remote>>

\* Variant of LastAttempt: the loop runs 1..5 exclusive and gives up after 4.
LastAttemptAfterFour(attempt) == ~(attempt < MaxAttempts - 1)

\* the retry loop gives up after this attempt
LastAttempt(attempt) == ~(attempt < MaxAttempts)

\* Variant of Backoff: the sleep doubles from one attempt to the next.
BackoffExponential(attempt) == 2 ^ (attempt - 1)

\* Duration::from_secs(attempt)
Backoff(attempt) == attempt

\* Variant of ExhaustedError: the error does not carry the file name.
ExhaustedErrorUnnamed(t) == <<"Failed after 5 attempts">>

\* anyhow!("{}: Failed after 5 attempts - {}", filename, last_error.unwrap())
ExhaustedError(t) == <<file_name(TrackFile(t)), "Failed after 5 attempts">>

\* bucket_clone.put_object_with_content_type(&r2_key, ..).await and the match on it
TaskPut(t) ==
    /\ TasksRun
    /\ task[t].st = "InFlight"
    /\ \E ok \in BOOLEAN :
          IF ok
          THEN /\ rObjects' = rObjects \cup {r2_key(t)}
               /\ task' = [task EXCEPT ![t].st = "Succeeded",
                                       ![t].ret = <<file_name(TrackFile(t))>>,
                                       ![t].puts = Append(task[t].puts, TRUE)]
               /\ permits' = permits + 1
          ELSE /\ rObjects' = rObjects
               /\ IF LastAttempt(task[t].attempt)
                  THEN /\ task' = [task EXCEPT
                                      ![t].st = "Failed",
                                      ![t].ret = ExhaustedError(t),
                                      ![t].puts = Append(task[t].puts, FALSE)]
                       /\ permits' = permits + 1
                  ELSE /\ task' = [task EXCEPT
                                      ![t].st = "RetryWait",
                                      ![t].sleep = Backoff(task[t].attempt),
                                      ![t].puts = Append(task[t].puts, FALSE)]
                       /\ permits' = permits
    /\ UNCHANGED <<cmd, pc, result, args, names, conf, manifest, log, warnings, flags, max_concurrent_uploads,
                   spawnIdx, audio_file_exists, upload_tasks, joinIdx, successful_uploads,
                   failed_uploads, tdown, rProject, rBucket, rMultiparts>>

\* Variant of TaskWake: a task that has failed starts over.
TaskWakeAny(t) ==
    /\ TasksRun
    /\ task[t].st \in {"RetryWait", "Failed"}
    /\ task' = [task EXCEPT ![t].st = "InFlight",
                            ![t].attempt = task[t].attempt + 1,
                            ![t].sleep = 0]
    /\ UNCHANGED <<cmd, pc, result, args, names, conf, manifest, log, warnings, flags, max_concurrent_uploads,
                   permits, spawnIdx, audio_file_exists, upload_tasks, joinIdx, successful_uploads,
                   failed_uploads, tdown, remote>>

\* the backoff sleep ends; the loop goes to the next attempt
TaskWake(t) ==
    /\ TasksRun
    /\ task[t].st = "RetryWait"
    /\ task' = [task EXCEPT ![t].st = "InFlight",
                            ![t].attempt = task[t].attempt + 1,
                            ![t].sleep = 0]
    /\ UNCHANGED <<cmd, pc, result, args, names, conf, manifest, log, warnings, flags, max_concurrent_uploads,
                   permits, spawnIdx, audio_file_exists, upload_tasks, joinIdx, successful_uploads,
                   failed_uploads, tdown, remote>>

\* Variant of Awaited: the join stops waiting once any task has failed (a race).
AwaitedFirstFailure(t) ==
    \/ task[t].st \in Terminal
    \/ \E u \in Tracks : task[u].st = "Failed"

\* task.await returns once the task has returned
Awaited(t) == task[t].st \in Terminal

\* one iteration of `for task in upload_tasks { match task.await {..} }`
PublishJoin ==
    /\ cmd = "publish" /\ pc = "p_join"
    /\ joinIdx <= Len(upload_tasks)
    /\ Awaited(upload_tasks[joinIdx])
    /\ LET t == upload_tasks[joinIdx] IN
          IF task[t].st = "Succeeded"
          THEN /\ successful_uploads' = successful_uploads + 1
               /\ failed_uploads' = failed_uploads
          ELSE /\ successful_uploads' = successful_uploads
               /\ failed_uploads' = Append(failed_uploads, task[t].ret)
    /\ joinIdx' = joinIdx + 1
    /\ UNCHANGED <<cmd, pc, result, args, names, conf, manifest, log, warnings, flags, max_concurrent_uploads,
                   permits, spawnIdx, audio_file_exists, upload_tasks, task, tdown, remote>>

\* Variant of PublishAfterJoin: publish aborts only when no upload succeeded.
PublishAfterJoinLenient ==
    /\ cmd = "publish" /\ pc = "p_join"
    /\ joinIdx > Len(upload_tasks)
    /\ IF failed_uploads # <<>> /\ successful_uploads = 0
       THEN Return("uploads_failed")
       ELSE Goto("p_cors")
    /\ UNCHANGED <<cmd, args, names, conf, manifest, log, warnings, flags, pool, tdown, remote>>

\* Variant of PublishAfterJoin: the failures are printed and publish goes on.
PublishAfterJoinWarnOnly ==
    /\ cmd = "publish" /\ pc = "p_join"
    /\ joinIdx > Len(upload_tasks)
    /\ Goto("p_cors")
    /\ UNCHANGED <<cmd, args, names, conf, manifest, log, warnings, flags, pool, tdown, remote>>

\* if !failed_uploads.is_empty() { bail!("{} upload(s) failed") }
PublishAfterJoin ==
    /\ cmd = "publish" /\ pc = "p_join"
    /\ joinIdx > Len(upload_tasks)
    /\ IF failed_uploads # <<>> THEN Return("uploads_failed") ELSE Goto("p_cors")
    /\ UNCHANGED <<cmd, args, names, conf, manifest, log, warnings, flags, pool, tdown, remote>>

\* Variant of PublishCors: a configuration that fails ends publish.
PublishCorsFatal ==
    /\ cmd = "publish" /\ pc = "p_cors"
    /\ IF ~bucket_exists
       THEN \E ok \in BOOLEAN :
               /\ Call("configure_public_access", ok)
               /\ IF ok THEN Goto("p_verify") ELSE Return("api")
       ELSE log' = log /\ Goto("p_verify")
    /\ UNCHANGED <<cmd, args, names, conf, manifest, warnings, flags, pool, tdown, remote>>

\* if !bucket_exists { match client.configure_r2_public_access(..).await {..} }
PublishCors ==
    /\ cmd = "publish" /\ pc = "p_cors"
    /\ IF ~bucket_exists
       THEN \E ok \in BOOLEAN :
               /\ Call("configure_public_access", ok)
               /\ warnings' = IF ok THEN warnings
                              ELSE warnings \cup {"cors_configuration_failed"}
       ELSE log' = log /\ warnings' = warnings
    /\ Goto("p_verify")
    /\ UNCHANGED <<cmd, args, names, conf, manifest, flags, pool, tdown, remote>>

\* match client.get_r2_bucket(&bucket_name).await: Ok(None) and Err(_) bail
PublishVerifyBucket ==
    /\ cmd = "publish" /\ pc = "p_verify"
    /\ \E ok \in BOOLEAN :
          /\ Call("get_bucket", ok)
          /\ IF ok /\ rBucket THEN Goto("p_custom_domain") ELSE Return("bucket_not_verified")
    /\ UNCHANGED <<cmd, args, names, conf, manifest, warnings, flags, pool, tdown, remote>>

\* let cdn_url = if let Some(base_domain) = &config.cloudflare.base_domain {
\*     match client.add_r2_custom_domain(..).await { Ok => .., Err => default } }
\* else { default }
PublishCustomDomain ==
    /\ cmd = "publish" /\ pc = "p_custom_domain"
    /\ \E configured \in {"none", "some"} :
          /\ base_domain' = configured
          /\ IF configured = "some"
             THEN \E ok \in BOOLEAN :
                     /\ Call("add_custom_domain", ok)
                     /\ IF ok
                        THEN /\ cdn_url' = cdn_url
                             /\ warnings' = warnings
                             /\ Goto("p_cdn_zone")
                        ELSE /\ cdn_url' = "default"
                             /\ warnings' = warnings \cup {"custom_domain_setup_failed"}
                             /\ Goto("p_build")
             ELSE /\ log' = log
                  /\ cdn_url' = "default"
                  /\ warnings' = warnings
                  /\ Goto("p_build")
    /\ UNCHANGED <<cmd, args, names, conf, manifest, project_exists, bucket_exists, pool, tdown, remote>>

\* if let Some(zone) = client.get_dns_zone(base_domain).await? {..}
\* format!("https://{}", cdn_domain)
PublishCdnZone ==
    /\ cmd = "publish" /\ pc = "p_cdn_zone"
    /\ \E o \in {"err", "none", "some"} :
          /\ Call("get_dns_zone", o # "err")
          /\ IF o = "err"
             THEN cdn_url' = cdn_url /\ Return("api")
             ELSE IF o = "none"
                  THEN cdn_url' = "custom" /\ Goto("p_build")
                  ELSE cdn_url' = cdn_url /\ Goto("p_cdn_dns")
    /\ UNCHANGED <<cmd, args, names, conf, manifest, warnings, project_exists, bucket_exists, base_domain,
                   pool, tdown, remote>>

\* Variant of PublishCdnDns: a record that cannot be created ends publish.
PublishCdnDnsFatal ==
    /\ cmd = "publish" /\ pc = "p_cdn_dns"
    /\ \E ok \in BOOLEAN :
          /\ Call("create_dns_record_cdn", ok)
          /\ IF ok THEN Goto("p_build") ELSE Return("api")
    /\ warnings' = warnings
    /\ cdn_url' = "custom"
    /\ UNCHANGED <<cmd, args, names, conf, manifest, project_exists, bucket_exists, base_domain, pool, tdown, remote>>

\* match client.create_dns_record(&zone.id, &cdn_domain, &r2_target).await {..}
\* format!("https://{}", cdn_domain)
PublishCdnDns ==
    /\ cmd = "publish" /\ pc = "p_cdn_dns"
    /\ \E ok \in BOOLEAN :
          /\ Call("create_dns_record_cdn", ok)
          /\ warnings' = IF ok THEN warnings
                         ELSE warnings \cup {"cdn_dns_record_creation_failed"}
    /\ cdn_url' = "custom"
    /\ Goto("p_build")
    /\ UNCHANGED <<cmd, args, names, conf, manifest, project_exists, bucket_exists, base_domain, pool, tdown, remote>>

\* Variant of AfterBuild: the project is created without looking at project_exists.
AfterBuildAlwaysCreate == "p_create_project"

\* if !project_exists { create_pages_project } and then upload_deployment
AfterBuild == IF ~project_exists THEN "p_create_project" ELSE "p_upload_site"

\* Variant of PublishBuild: publish goes on after a build that failed.
PublishBuildLenient ==
    /\ cmd = "publish" /\ pc = "p_build"
    /\ \E ok \in BOOLEAN :
          /\ Call("build_static_site", ok)
          /\ Goto(AfterBuild)
    /\ UNCHANGED <<cmd, args, names, conf, manifest, warnings, flags, pool, tdown, remote>>

\* TempDir::new()?; build_static_site(&path, build_dir, false, Some(&cdn_url))?;
PublishBuild ==
    /\ cmd = "publish" /\ pc = "p_build"
    /\ \E ok \in BOOLEAN :
          /\ Call("build_static_site", ok)
          /\ IF ~ok THEN Return("build") ELSE Goto(AfterBuild)
    /\ UNCHANGED <<cmd, args, names, conf, manifest, warnings, flags, pool, tdown, remote>>

\* client.create_pages_project(&project_name).await?
PublishCreateProject ==
    /\ cmd = "publish" /\ pc = "p_create_project"
    /\ \E ok \in BOOLEAN :
          /\ Call("create_project", ok)
          /\ IF ok
             THEN rProject' = TRUE /\ Goto("p_upload_site")
             ELSE rProject' = rProject /\ Return("api")
    /\ UNCHANGED <<cmd, args, names, conf, manifest, warnings, flags, pool, tdown, rBucket, rObjects, rMultiparts>>

\* let deployment_url = client.upload_deployment(&project_name, build_dir).await?;
\* then `if let (Some(subdomain), Some(base_domain)) = (..)`
PublishUploadSite ==
    /\ cmd = "publish" /\ pc = "p_upload_site"
    /\ \E ok \in BOOLEAN, subdomain \in {"none", "some"} :
          /\ Call("upload_deployment", ok)
          /\ IF ~ok
             THEN Return("api")
             ELSE IF subdomain = "some" /\ base_domain = "some"
                  THEN Goto("p_site_zone")
                  ELSE Return("ok")
    /\ UNCHANGED <<cmd, args, names, conf, manifest, warnings, flags, pool, tdown, remote>>

\* match client.get_dns_zone(base_domain).await? { Some(zone) => .., None => warn }
PublishSiteZone ==
    /\ cmd = "publish" /\ pc = "p_site_zone"
    /\ \E o \in {"err", "none", "some"} :
          /\ Call("get_dns_zone", o # "err")
          /\ warnings' = IF o = "none"
                         THEN warnings \cup {"domain_not_found"}
                         ELSE warnings
          /\ IF o = "err"
             THEN Return("api")
             ELSE IF o = "none" THEN Return("ok") ELSE Goto("p_site_dns")
    /\ UNCHANGED <<cmd, args, names, conf, manifest, flags, pool, tdown, remote>>

\* match client.create_dns_record(&zone.id, &full_domain, &target).await {..}; Ok(())
PublishSiteDns ==
    /\ cmd = "publish" /\ pc = "p_site_dns"
    /\ \E ok \in BOOLEAN :
          /\ Call("create_dns_record_site", ok)
          /\ warnings' = IF ok THEN warnings
                         ELSE warnings \cup {"site_dns_record_creation_failed"}
    /\ Return("ok")
    /\ UNCHANGED <<cmd, args, names, conf, manifest, flags, pool, tdown, remote>>

\* ------------------------------------------------------------------- status
\* album.toml exists, parses, and the derived project name is valid
StatusParse ==
    /\ cmd = "status" /\ pc = "s_parse"
    /\ ParseAlbum("s_load_config")
    /\ UNCHANGED <<cmd, args, input, conf, manifest, log, warnings, flags, pool, tdown, remote>>

\* load_config()?.context("No Cloudflare configuration found")?
StatusLoadConfig ==
    /\ cmd = "status" /\ pc = "s_load_config"
    /\ LoadConfig("s_get_project")
    /\ UNCHANGED <<cmd, args, names, conf, manifest, warnings, flags, pool, tdown, remote>>

\* match client.get_pages_project(&project_name).await? { Some => .., None => .. }; Ok(())
StatusGetProject ==
    /\ cmd = "status" /\ pc = "s_get_project"
    /\ \E ok \in BOOLEAN :
          /\ Call("get_project", ok)
          /\ IF ok THEN Return("ok") ELSE Return("api")
    /\ UNCHANGED <<cmd, args, names, conf, manifest, warnings, flags, pool, tdown, remote>>

\* ----------------------------------------------------------------- teardown
\* album.toml exists, parses, and the derived project name is valid
TeardownParse ==
    /\ cmd = "teardown" /\ pc = "t_parse"
    /\ ParseAlbum("t_load_config")
    /\ UNCHANGED <<cmd, args, input, conf, manifest, log, warnings, flags, pool, tdown, remote>>

\* load_config()?.context("No Cloudflare configuration found")?
TeardownLoadConfig ==
    /\ cmd = "teardown" /\ pc = "t_load_config"
    /\ LoadConfig("t_get_project")
    /\ UNCHANGED <<cmd, args, names, conf, manifest, warnings, flags, pool, tdown, remote>>

\* let project_exists = client.get_pages_project(&project_name).await?.is_some();
TeardownGetProject ==
    /\ cmd = "teardown" /\ pc = "t_get_project"
    /\ \E ok \in BOOLEAN :
          /\ Call("get_project", ok)
          /\ IF ok
             THEN project_exists' = rProject /\ Goto("t_get_bucket")
             ELSE project_exists' = project_exists /\ Return("api")
    /\ UNCHANGED <<cmd, args, names, conf, manifest, warnings, bucket_exists, base_domain, cdn_url, pool, tdown, remote>>

\* let bucket_exists = client.get_r2_bucket(&bucket_name).await?.is_some();
\* if !project_exists && !bucket_exists { return Ok(()) }
TeardownGetBucket ==
    /\ cmd = "teardown" /\ pc = "t_get_bucket"
    /\ \E ok \in BOOLEAN :
          /\ Call("get_bucket", ok)
          /\ IF ok
             THEN /\ bucket_exists' = rBucket
                  /\ IF ~project_exists /\ ~rBucket
                     THEN Return("ok")
                     ELSE Goto("t_prompt")
             ELSE bucket_exists' = bucket_exists /\ Return("api")
    /\ UNCHANGED <<cmd, args, names, conf, manifest, warnings, project_exists, base_domain, cdn_url, pool, tdown, remote>>

\* the statement the confirmed teardown goes to: `if project_exists`, `if bucket_exists`
AfterPrompt == IF project_exists THEN "t_delete_project" ELSE "t_list_objects"

\* if !force { read_line; if input.trim() != project_name { return Ok(()) } }
TeardownPrompt ==
    /\ cmd = "teardown" /\ pc = "t_prompt"
    /\ IF PromptSkipped(force)
       THEN /\ log' = log
            /\ input' = input
            /\ Goto(AfterPrompt)
       ELSE \/ /\ Call("prompt", FALSE)
               /\ input' = input
               /\ Return("io")
            \/ \E line \in TeardownAnswers(project_name) :
                  /\ Call("prompt", Confirmed(line, project_name))
                  /\ input' = line
                  /\ IF Confirmed(line, project_name) THEN Goto(AfterPrompt) ELSE Return("ok")
    /\ UNCHANGED <<cmd, args, album, project_name, conf, manifest, warnings, flags, pool, tdown, remote>>

\* if project_exists { client.delete_pages_project(&project_name).await?; }
TeardownDeleteProject ==
    /\ cmd = "teardown" /\ pc = "t_delete_project"
    /\ \E ok \in BOOLEAN :
          /\ Call("delete_project", ok)
          /\ rProject' = IF ok THEN FALSE ELSE rProject
          /\ IF ~ok
             THEN Return("api")
             ELSE IF bucket_exists THEN Goto("t_list_objects") ELSE Return("ok")
    /\ UNCHANGED <<cmd, args, names, conf, manifest, warnings, flags, pool, tdown, rBucket, rObjects, rMultiparts>>

\* empty_r2_bucket: S3Credentials::new(..)?, S3Bucket::new(..)?,
\* bucket.list("", None).await?, and the collection of all_keys;
\* teardown's Err arm warns and returns Ok(())
EmptyList ==
    /\ cmd = "teardown" /\ pc = "t_list_objects"
    /\ \E ok \in BOOLEAN :
          /\ Call("list_objects", ok)
          /\ IF ok
             THEN /\ all_keys' = rObjects
                  /\ warnings' = warnings
                  /\ Goto(IF rObjects = {} THEN "t_list_multiparts" ELSE "t_delete_objects")
             ELSE /\ all_keys' = all_keys
                  /\ warnings' = warnings \cup {"failed_to_empty_bucket"}
                  /\ Return("ok")
    /\ UNCHANGED <<cmd, args, names, conf, manifest, flags, pool, uploads, remote>>

\* for key in all_keys { bucket.delete_object(&key).await.with_context(..)?; }
EmptyDeleteObject ==
    /\ cmd = "teardown" /\ pc = "t_delete_objects"
    /\ all_keys # {}
    /\ LET key == CHOOSE k \in all_keys : \A k2 \in all_keys : k[2] <= k2[2] IN
       \E ok \in BOOLEAN :
          /\ Call("delete_object", ok)
          /\ IF ok
             THEN /\ rObjects' = rObjects \ {key}
                  /\ all_keys' = all_keys \ {key}
                  /\ warnings' = warnings
                  /\ Goto(IF all_keys = {key} THEN "t_list_multiparts"
                          ELSE "t_delete_objects")
             ELSE /\ rObjects' = rObjects
                  /\ all_keys' = all_keys
                  /\ warnings' = warnings \cup {"failed_to_empty_bucket"}
                  /\ Return("ok")
    /\ UNCHANGED <<cmd, args, names, conf, manifest, flags, pool, uploads, rProject, rBucket, rMultiparts>>

\* let multipart_results = bucket.list_multiparts_uploads(None, None).await?;
EmptyListMultiparts ==
    /\ cmd = "teardown" /\ pc = "t_list_multiparts"
    /\ \E ok \in BOOLEAN :
          /\ Call("list_multipart_uploads", ok)
          /\ IF ok
             THEN /\ uploads' = rMultiparts
                  /\ warnings' = warnings
                  /\ Goto(IF rMultiparts = {} THEN "t_delete_bucket" ELSE "t_abort")
             ELSE /\ uploads' = uploads
                  /\ warnings' = warnings \cup {"failed_to_empty_bucket"}
                  /\ Return("ok")
    /\ UNCHANGED <<cmd, args, names, conf, manifest, flags, pool, all_keys, remote>>

\* match bucket.abort_upload(&upload.key, &upload.id).await { Ok => .., Err => eprintln! }
EmptyAbortUpload ==
    /\ cmd = "teardown" /\ pc = "t_abort"
    /\ uploads # {}
    /\ LET u == CHOOSE x \in uploads : \A y \in uploads : x <= y IN
       \E ok \in BOOLEAN :
          /\ Call("abort_upload", ok)
          /\ rMultiparts' = IF ok THEN rMultiparts \ {u} ELSE rMultiparts
          /\ uploads' = uploads \ {u}
          /\ warnings' = IF ok THEN warnings
                         ELSE warnings \cup {"failed_to_abort_upload"}
          /\ Goto(IF uploads = {u} THEN "t_delete_bucket" ELSE "t_abort")
    /\ UNCHANGED <<cmd, args, names, conf, manifest, flags, pool, all_keys, rProject, rBucket, rObjects>>

\* the remote refuses to delete a bucket that is not empty
BucketEmpty == rObjects = {} /\ rMultiparts = {}

\* Variant of TeardownDeleteBucket: a failed deletion prints nothing.
TeardownDeleteBucketSilent ==
    /\ cmd = "teardown" /\ pc = "t_delete_bucket"
    /\ \E ok \in {TRUE, FALSE} :
          /\ ok => BucketEmpty
          /\ Call("delete_bucket", ok)
          /\ rBucket' = IF ok THEN FALSE ELSE rBucket
          /\ warnings' = warnings
    /\ Return("ok")
    /\ UNCHANGED <<cmd, args, names, conf, manifest, flags, pool, tdown, rProject, rObjects, rMultiparts>>

\* match client.delete_r2_bucket(&bucket_name).await { Ok => .., Err => warn }; Ok(())
TeardownDeleteBucket ==
    /\ cmd = "teardown" /\ pc = "t_delete_bucket"
    /\ \E ok \in {TRUE, FALSE} :
          /\ ok => BucketEmpty
          /\ Call("delete_bucket", ok)
          /\ rBucket' = IF ok THEN FALSE ELSE rBucket
          /\ warnings' = IF ok THEN warnings
                         ELSE warnings \cup {"failed_to_delete_bucket"}
    /\ Return("ok")
    /\ UNCHANGED <<cmd, args, names, conf, manifest, flags, pool, tdown, rProject, rObjects, rMultiparts>>

\* ---------------------------------------------------------- specification
TaskStep(t) == TaskAcquire(t) \/ TaskRead(t) \/ TaskPut(t) \/ TaskWake(t)

Next ==
    \/ StartPublish
    \/ StartTeardown
    \/ StartStatus
    \/ Exit
    \/ ForeignMultipartUpload
    \/ PublishParse
    \/ PublishLoadConfig
    \/ PublishGetProject
    \/ PublishPrompt
    \/ PublishGetBucket
    \/ PublishCreateBucket
    \/ PublishAudioDir
    \/ PublishSemaphore
    \/ PublishSpawn
    \/ \E t \in Tracks : TaskAcquire(t)
    \/ \E t \in Tracks : TaskRead(t)
    \/ \E t \in Tracks : TaskPut(t)
    \/ \E t \in Tracks : TaskWake(t)
    \/ PublishJoin
    \/ PublishAfterJoin
    \/ PublishCors
    \/ PublishVerifyBucket
    \/ PublishCustomDomain
    \/ PublishCdnZone
    \/ PublishCdnDns
    \/ PublishBuild
    \/ PublishCreateProject
    \/ PublishUploadSite
    \/ PublishSiteZone
    \/ PublishSiteDns
    \/ StatusParse
    \/ StatusLoadConfig
    \/ StatusGetProject
    \/ TeardownParse
    \/ TeardownLoadConfig
    \/ TeardownGetProject
    \/ TeardownGetBucket
    \/ TeardownPrompt
    \/ TeardownDeleteProject
    \/ EmptyList
    \/ EmptyDeleteObject
    \/ EmptyListMultiparts
    \/ EmptyAbortUpload
    \/ TeardownDeleteBucket

Spec == Init /\ [][Next]_vars

\* The scheduling the runtime gives: every spawned task that can take a step
\* eventually takes it, the remote answers every request, and the command
\* itself goes on whenever it can.  Nothing obliges an operator to invoke the
\* CLI again.
CommandStep ==
    \/ PublishParse \/ PublishLoadConfig \/ PublishGetProject \/ PublishPrompt
    \/ PublishGetBucket \/ PublishCreateBucket \/ PublishAudioDir
    \/ PublishSemaphore \/ PublishSpawn \/ PublishJoin \/ PublishAfterJoin
    \/ PublishCors \/ PublishVerifyBucket \/ PublishCustomDomain
    \/ PublishCdnZone \/ PublishCdnDns \/ PublishBuild \/ PublishCreateProject
    \/ PublishUploadSite \/ PublishSiteZone \/ PublishSiteDns
    \/ StatusParse \/ StatusLoadConfig \/ StatusGetProject
    \/ TeardownParse \/ TeardownLoadConfig \/ TeardownGetProject
    \/ TeardownGetBucket \/ TeardownPrompt \/ TeardownDeleteProject
    \/ EmptyList \/ EmptyDeleteObject \/ EmptyListMultiparts
    \/ EmptyAbortUpload \/ TeardownDeleteBucket

FairSpec ==
    /\ Spec
    /\ WF_vars(CommandStep)
    /\ \A t \in Tracks : WF_vars(TaskStep(t))

\* ---------------------------------------------------------------- configure
\* publish, status and teardown take what load_config finds as an input
\* (LoadConfig); across runs of configure the credentials file is state.

\* the lines an operator may type at configure's prompts
TokenLines == {<<"LF">>, Repeat("a", 20) \o <<"LF">>, <<" ">> \o Repeat("b", 20) \o <<"LF">>,
               Repeat("a", 19) \o <<"LF">>, Repeat("a", 19) \o <<"!", "LF">>}
AccountLines == {<<"LF">>, Repeat("a", 32) \o <<"LF">>, Repeat("a", 31) \o <<"LF">>,
                 Repeat("z", 32) \o <<"LF">>}
AccessKeyLines == {<<"LF">>, Repeat("a", 10) \o <<"LF">>, Repeat("a", 9) \o <<"LF">>,
                   Repeat("a", 9) \o <<"_", "LF">>}
SecretLines == {<<"LF">>, Repeat("a", 10) \o <<"LF">>, <<"!", "LF">>}
DomainLines == {<<"LF">>, <<"N", "o", "n", "e", "LF">>, <<"a", ".", "b", "LF">>,
                <<"a", "b", "LF">>, <<"a", ".", ".", "b", "LF">>, <<"a", "-", ".", "b", "LF">>,
                Repeat("a", 64) \o <<".", "b", "LF">>}

\* the credentials files configure may find: none, or one that deserializes
\* (load_config checks no format)
StoredConfigs ==
    [api_token : {Repeat("a", 20), Repeat("a", 19)},
     account_id : {Repeat("a", 32)},
     base_domain : {<<>>, <<<<"a", ".", "b">>>>, <<<<"a", "b">>>>},
     r2_access_key_id : {Repeat("a", 10), Repeat("a", 9) \o <<"_">>},
     r2_secret_access_key : {Repeat("a", 10), <<"!">>}]

\* existing.as_ref().map(|c| c.cloudflare.<field>.as_str()).unwrap_or("")
default_of(field) == IF existing = <<>> THEN <<>> ELSE existing[1][field]

\* existing.as_ref().and_then(|c| c.cloudflare.base_domain.as_ref()).unwrap_or("")
default_domain ==
    IF existing = <<>> \/ existing[1].base_domain = <<>> THEN <<>>
    ELSE existing[1].base_domain[1]

\* what configure leaves alone
beside_configure == <<args, names, manifest, log, warnings, flags, pool, tdown, remote>>

ConfigureInit ==
    /\ cmd = "idle"
    /\ pc = "idle"
    /\ result = "none"
    /\ InitLocals
    /\ album = NoAlbum
    /\ project_name = <<>>
    /\ input = <<>>
    /\ config_file \in {<<>>} \cup {<<c>> : c \in StoredConfigs}
    /\ InitDraft
    /\ InitManifest
    /\ rProject = FALSE
    /\ rBucket = FALSE
    /\ rObjects = {}
    /\ rMultiparts = {}

\* main: DeployCommand::Configure
StartConfigure ==
    /\ cmd = "idle"
    /\ cmd' = "configure"
    /\ pc' = "c_load"
    /\ UNCHANGED <<result, conf, beside_configure>>

\* let existing = load_config()?;
ConfigureLoad ==
    /\ cmd = "configure" /\ pc = "c_load"
    /\ \/ existing' = existing /\ Return("config_error")
       \/ existing' = config_file /\ Goto("c_token")
    /\ UNCHANGED <<cmd, config_file, api_token, account_id, r2_access_key_id,
                   r2_secret_access_key, base_domain_input, beside_configure>>

\* the API token is read, or the current one kept, and validated
ConfigureToken ==
    /\ cmd = "configure" /\ pc = "c_token"
    /\ \/ api_token' = api_token /\ Return("io")
       \/ \E line \in TokenLines :
             LET typed == read_input(line)
                 token == IF default_of("api_token") # <<>> /\ typed = <<>>
                          THEN default_of("api_token")
                          ELSE typed
             IN /\ api_token' = token
                /\ IF validate_api_token(token)
                   THEN Goto("c_account")
                   ELSE Return("invalid_api_token")
    /\ UNCHANGED <<cmd, config_file, existing, account_id, r2_access_key_id,
                   r2_secret_access_key, base_domain_input, beside_configure>>

\* the account id is read, or the current one kept, and validated
ConfigureAccount ==
    /\ cmd = "configure" /\ pc = "c_account"
    /\ \/ account_id' = account_id /\ Return("io")
       \/ \E line \in AccountLines :
             LET typed == read_input(line)
                 id == IF default_of("account_id") # <<>> /\ typed = <<>>
                       THEN default_of("account_id")
                       ELSE typed
             IN /\ account_id' = id
                /\ IF validate_account_id(id)
                   THEN Goto("c_access_key")
                   ELSE Return("invalid_account_id")
    /\ UNCHANGED <<cmd, config_file, existing, api_token, r2_access_key_id,
                   r2_secret_access_key, base_domain_input, beside_configure>>

\* the access key id: the current one is kept as it is, a typed one is
\* validated, and one is required when there is none
ConfigureAccessKey ==
    /\ cmd = "configure" /\ pc = "c_access_key"
    /\ \/ r2_access_key_id' = r2_access_key_id /\ Return("io")
       \/ \E line \in AccessKeyLines :
             LET typed == read_input(line)
             IN IF default_of("r2_access_key_id") # <<>> /\ typed = <<>>
                THEN /\ r2_access_key_id' = default_of("r2_access_key_id")
                     /\ Goto("c_secret")
                ELSE IF typed = <<>>
                THEN /\ r2_access_key_id' = r2_access_key_id
                     /\ Return("r2_access_key_required")
                ELSE IF validate_r2_access_key(typed)
                THEN /\ r2_access_key_id' = typed
                     /\ Goto("c_secret")
                ELSE /\ r2_access_key_id' = r2_access_key_id
                     /\ Return("invalid_r2_access_key")
    /\ UNCHANGED <<cmd, config_file, existing, api_token, account_id,
                   r2_secret_access_key, base_domain_input, beside_configure>>

\* the secret access key: the current one or the typed one, required when
\* there is none; no format is checked
ConfigureSecret ==
    /\ cmd = "configure" /\ pc = "c_secret"
    /\ \/ r2_secret_access_key' = r2_secret_access_key /\ Return("io")
       \/ \E line \in SecretLines :
             LET typed == read_input(line)
             IN IF default_of("r2_secret_access_key") # <<>> /\ typed = <<>>
                THEN /\ r2_secret_access_key' = default_of("r2_secret_access_key")
                     /\ Goto("c_domain")
                ELSE IF typed = <<>>
                THEN /\ r2_secret_access_key' = r2_secret_access_key
                     /\ Return("r2_secret_required")
                ELSE /\ r2_secret_access_key' = typed
                     /\ Goto("c_domain")
    /\ UNCHANGED <<cmd, config_file, existing, api_token, account_id,
                   r2_access_key_id, base_domain_input, beside_configure>>

\* the base domain: the current one is kept as it is, 'none' removes it, a
\* typed one is validated, and an empty line without a current one is None
ConfigureDomain ==
    /\ cmd = "configure" /\ pc = "c_domain"
    /\ \/ base_domain_input' = base_domain_input /\ Return("io")
       \/ \E line \in DomainLines :
             LET typed == read_input(line)
             IN IF typed = <<>>
                THEN /\ base_domain_input' = IF default_domain # <<>>
                                             THEN <<default_domain>>
                                             ELSE <<>>
                     /\ Goto("c_save")
                ELSE IF default_domain # <<>> /\ eq_ignore_ascii_case(typed, <<"n", "o", "n", "e">>)
                THEN /\ base_domain_input' = <<>>
                     /\ Goto("c_save")
                ELSE IF validate_domain(typed)
                THEN /\ base_domain_input' = <<typed>>
                     /\ Goto("c_save")
                ELSE /\ base_domain_input' = base_domain_input
                     /\ Return("invalid_domain")
    /\ UNCHANGED <<cmd, config_file, existing, api_token, account_id,
                   r2_access_key_id, r2_secret_access_key, beside_configure>>

\* let config = GlobalConfig { .. }
config ==
    [api_token |-> api_token,
     account_id |-> account_id,
     base_domain |-> base_domain_input,
     r2_access_key_id |-> r2_access_key_id,
     r2_secret_access_key |-> r2_secret_access_key]

\* save_config(&config)?: the write may fail, and so may set_permissions
\* after the file has been written
ConfigureSave ==
    /\ cmd = "configure" /\ pc = "c_save"
    /\ \E o \in {"ok", "write_failed", "set_permissions_failed"} :
          /\ config_file' = IF o = "write_failed" THEN config_file ELSE <<config>>
          /\ IF o = "ok" THEN Return("ok") ELSE Return("io")
    /\ UNCHANGED <<cmd, draft, beside_configure>>

ConfigureNext ==
    \/ StartConfigure
    \/ ConfigureLoad
    \/ ConfigureToken
    \/ ConfigureAccount
    \/ ConfigureAccessKey
    \/ ConfigureSecret
    \/ ConfigureDomain
    \/ ConfigureSave
    \/ Exit

ConfigureSpec == ConfigureInit /\ [][ConfigureNext]_vars

\* ----------------------------------------------- derive_project_name alone
\* the characters the names are drawn from
NameChars == {"a", "Z", "7", " ", "_", "-", "!", "E_ACUTE", "KELVIN"}
StringsUpTo(n) == UNION {[1..k -> NameChars] : k \in 0..n}

\* derive_project_name is about to be called on an artist name and a title
DeriveInit ==
    /\ cmd = "derive"
    /\ pc = "derive"
    /\ result = "none"
    /\ InitLocals
    /\ album \in [artist : StringsUpTo(MaxArtistLen), title : StringsUpTo(MaxTitleLen),
                 tracks : {<<>>}]
    /\ project_name = <<>>
    /\ input = <<>>
    /\ config_file = <<>>
    /\ InitDraft
    /\ InitManifest
    /\ rProject = FALSE
    /\ rBucket = FALSE
    /\ rObjects = {}
    /\ rMultiparts = {}

\* let project_name = derive_project_name(&album.artist.name, &album.metadata.title)
DeriveProjectName ==
    /\ cmd = "derive" /\ pc = "derive"
    /\ project_name' = derive_project_name(album.artist, album.title)
    /\ pc' = "done"
    /\ UNCHANGED <<cmd, result, args, album, input, conf, manifest, log, warnings, flags, pool, tdown, remote>>

DeriveNext == DeriveProjectName
DeriveSpec == DeriveInit /\ [][DeriveNext]_vars

\* ------------------------------------------------- parse_album_toml_str alone
\* Result<T>
Ok(v) == [ok |-> TRUE, val |-> v]
Err(e) == [ok |-> FALSE, val |-> e]

\* Path::is_absolute on Unix: the path has a root
is_absolute(path) == path # <<>> /\ path[1] = "/"

\* Path::components on Unix: RootDir for the root; of the pieces between
\* separators an empty one is skipped, "." is CurDir as the first piece of a
\* path without root and skipped anywhere else, ".." is ParentDir and any
\* other piece is Normal
components(path) ==
    LET pieces == split(path, "/")
        kind(i) == IF pieces[i] = <<>> THEN "skipped"
                   ELSE IF pieces[i] = <<".">>
                   THEN (IF i = 1 /\ ~is_absolute(path) THEN "CurDir" ELSE "skipped")
                   ELSE IF pieces[i] = <<".", ".">> THEN "ParentDir"
                   ELSE "Normal"
        kinds == [i \in 1..Len(pieces) |-> kind(i)]
    IN (IF is_absolute(path) THEN <<"RootDir">> ELSE <<>>)
          \o SelectSeq(kinds, LAMBDA k : k # "skipped")

\* Variant of has_parent_dir: only the first component is looked at.
starts_with_parent_dir(path) ==
    components(path) # <<>> /\ components(path)[1] = "ParentDir"

\* for component in path.components() { if component == ParentDir { return Err } }
has_parent_dir(path) ==
    \E i \in 1..Len(components(path)) : components(path)[i] = "ParentDir"

\* validate_path: Ok(path.to_path_buf()) or the error of the first check that fails
validate_path(path_str) ==
    IF is_absolute(path_str) THEN Err("absolute_path")
    ELSE IF has_parent_dir(path_str) THEN Err("parent_dir")
    ELSE IF trim(path_str) = <<>> THEN Err("empty_path")
    ELSE Ok(path_str)

\* the closure of `.map(|t| ..)`: the duration is parsed, then the file path
\* and the liner-notes path are validated
convert_track(t) ==
    IF t.duration = "bad" THEN Err("duration")
    ELSE LET file == validate_path(t.file) IN
         IF ~file.ok THEN file
         ELSE IF t.liner_notes = <<>>
         THEN Ok([file |-> file.val, liner_notes |-> <<>>])
         ELSE LET liner_notes == validate_path(t.liner_notes[1]) IN
              IF ~liner_notes.ok THEN liner_notes
              ELSE Ok([file |-> file.val, liner_notes |-> <<liner_notes.val>>])

\* .collect::<Result<Vec<Track>>>(): the tracks, or the first error
RECURSIVE collect(_)
collect(tracks) ==
    IF tracks = <<>> THEN Ok(<<>>)
    ELSE LET track == convert_track(Head(tracks)) IN
         IF ~track.ok THEN track
         ELSE LET rest == collect(Tail(tracks)) IN
              IF ~rest.ok THEN rest
              ELSE Ok(<<track.val>> \o rest.val)

\* parse_album_toml_str: toml::from_str, the release date, the album's liner
\* notes, the tracks
parse_album_toml_str(content) ==
    IF content.syntax # "ok" THEN Err(content.syntax)
    ELSE LET liner_notes == IF content.liner_notes = <<>> THEN Ok(<<>>)
                            ELSE validate_path(content.liner_notes[1])
             tracks == collect(content.track)
         IN IF ~liner_notes.ok THEN liner_notes
            ELSE IF ~tracks.ok THEN tracks
            ELSE Ok([liner_notes |-> IF content.liner_notes = <<>> THEN <<>>
                                     ELSE <<liner_notes.val>>,
                     tracks |-> tracks.val])

\* the paths the manifests are written with
TrackFiles == {<<>>, <<" ", "NBSP">>, <<"a">>, <<"/", "a">>, <<"a", "/", ".", ".">>,
               <<".", ".", "a">>}
TrackNotes == {<<>>, <<<<".", "/", "a">>>>, <<<<".", ".">>>>}
AlbumNotes == TrackNotes \cup {<<<<"/">>>>, <<<<" ">>>>}
RawTracks == [file : TrackFiles, duration : {"ok", "bad"}, liner_notes : TrackNotes]
RawConfigs ==
    [syntax : {"ok", "toml", "release_date"},
     liner_notes : AlbumNotes,
     track : UNION {[1..n -> RawTracks] : n \in 0..MaxTracks}]

\* parse_album_toml_str is about to be called on the content of an album.toml
ParseInit ==
    /\ cmd = "parse"
    /\ pc = "parse"
    /\ result = "none"
    /\ InitLocals
    /\ album = NoAlbum
    /\ project_name = <<>>
    /\ input = <<>>
    /\ config_file = <<>>
    /\ InitDraft
    /\ raw \in RawConfigs
    /\ parsed = <<>>
    /\ rProject = FALSE
    /\ rBucket = FALSE
    /\ rObjects = {}
    /\ rMultiparts = {}

\* parse_album_toml_str(&content)
ParseAlbumTomlStr ==
    /\ cmd = "parse" /\ pc = "parse"
    /\ parsed' = <<parse_album_toml_str(raw)>>
    /\ pc' = "done"
    /\ UNCHANGED <<cmd, result, args, names, conf, raw, log, warnings, flags, pool, tdown, remote>>

ParseNext == ParseAlbumTomlStr
ParseSpec == ParseInit /\ [][ParseNext]_vars

\* ------------------------------------------------------------------ claims
\* what the log of the run says
Called(name) == \E i \in 1..Len(log) : log[i].call = name
CalledOk(name) == \E i \in 1..Len(log) : log[i].call = name /\ log[i].ok
Count(name) == Cardinality({i \in 1..Len(log) : log[i].call = name})
Spawned == {upload_tasks[i] : i \in 1..Len(upload_tasks)}
Holders == {t \in Tracks : task[t].st \in HoldsPermit}
\* the handles the join loop has awaited so far
Joined == {upload_tasks[i] : i \in 1..(joinIdx - 1)}

AfterJoinPcs == {"p_cors", "p_verify", "p_custom_domain", "p_cdn_zone", "p_cdn_dns",
                 "p_build", "p_create_project", "p_upload_site", "p_site_zone",
                 "p_site_dns"}

\* publish has left the join loop: it is at a later statement, or it has
\* returned after a spawn loop that ran to its end
PastJoin ==
    /\ cmd = "publish"
    /\ \/ pc \in AfterJoinPcs
       \/ pc = "done" /\ spawnIdx > MaxTracks

\* C1. Fan-out completeness: once publish has spawned its upload tasks and
\* awaits them, whatever their number and whatever the size of the worker
\* pool, every spawned task eventually reaches Succeeded or Failed and has
\* been counted by the join loop.
C1_FanOutCompleteness ==
    (cmd = "publish" /\ pc = "p_join")
        ~> (/\ \A t \in Spawned : task[t].st \in Terminal
            /\ joinIdx > Len(upload_tasks)
            /\ successful_uploads + Len(failed_uploads) = Len(upload_tasks))

\* C2. No cancellation on failure, join not race: whenever publish is past
\* the join loop, every spawned task is Succeeded or Failed and has been
\* counted, and each of them ran its own course: a Succeeded task made an
\* attempt that succeeded, a Failed task failed its file read or its 5th
\* attempt; no task was stopped because a sibling failed.
C2_JoinNotRace ==
    PastJoin =>
        /\ \A t \in Spawned :
              /\ task[t].st \in Terminal
              /\ task[t].st = "Succeeded" => task[t].attempt \in 1..MaxAttempts
              /\ task[t].st = "Failed" => task[t].attempt \in {0, MaxAttempts}
        /\ Joined = Spawned
        /\ successful_uploads + Len(failed_uploads) = Len(upload_tasks)

\* a sibling succeeded although a task exhausted its retries, and publish is
\* past the join
C2_Witness ==
    /\ PastJoin
    /\ \E t, u \in Spawned :
          /\ task[t].st = "Failed" /\ task[t].attempt = MaxAttempts
          /\ task[u].st = "Succeeded"

\* C3. Upload retry exhaustion: when publish is past the join loop, a task
\* whose PUT failed on all 5 attempts is Failed, the failure list holds an
\* entry that names its file, and publish has returned an error.
C3_RetryExhaustion ==
    \A t \in Tracks :
        (PastJoin /\ task[t].puts = [i \in 1..MaxAttempts |-> FALSE]) =>
            /\ task[t].st = "Failed"
            /\ \E i \in 1..Len(failed_uploads) :
                  /\ Len(failed_uploads[i]) = 2
                  /\ failed_uploads[i][1] = file_name(TrackFile(t))
            /\ pc = "done"
            /\ IsErr(result)

\* publish has returned after a task failed all 5 attempts
C3_Witness ==
    /\ cmd = "publish" /\ pc = "done"
    /\ \E t \in Spawned : task[t].puts = [i \in 1..MaxAttempts |-> FALSE]

\* as many failures in a sequence of PUT outcomes as it is long
AllFailed(puts) == \A i \in 1..Len(puts) : ~puts[i]

\* C4. Upload retry success: a task whose PUT failed on attempts 1 to 4 goes
\* on to a 5th attempt, and when that attempt succeeds the task is Succeeded;
\* the failure list holds one entry per Failed task that was joined and
\* nothing for a Succeeded one, and publish returns "uploads failed" only if
\* some task is Failed.
C4_RetrySuccess ==
    /\ \A t \in Tracks :
          /\ (Len(task[t].puts) = MaxAttempts - 1 /\ AllFailed(task[t].puts))
                => task[t].st \in {"RetryWait", "InFlight"}
          /\ (Len(task[t].puts) = MaxAttempts /\ task[t].puts[MaxAttempts])
                => task[t].st = "Succeeded"
    /\ Len(failed_uploads) = Cardinality({t \in Joined : task[t].st # "Succeeded"})
    /\ successful_uploads = Cardinality({t \in Joined : task[t].st = "Succeeded"})
    /\ (cmd = "publish" /\ pc = "done" /\ result = "uploads_failed")
          => \E t \in Spawned : task[t].st = "Failed"

\* publish has run to its end with a task that succeeded on its 5th attempt
C4_Witness ==
    /\ cmd = "publish" /\ pc = "done" /\ result = "ok"
    /\ \E t \in Spawned :
          /\ Len(task[t].puts) = MaxAttempts
          /\ task[t].puts[MaxAttempts]
          /\ AllFailed(SubSeq(task[t].puts, 1, MaxAttempts - 1))

\* C5. Bounded concurrency: the tasks that hold a permit (reading their file,
\* in a PUT, or in a backoff sleep) are never more than the concurrency given,
\* 3 when none is given.
C5_BoundedConcurrency ==
    Cardinality(Holders) <= (IF concurrency = <<>> THEN 3 ELSE concurrency[1])

\* the pool is full and a task is waiting for a permit
C5_Witness ==
    /\ concurrency # <<>>
    /\ Cardinality(Holders) = concurrency[1]
    /\ Holders # {}
    /\ \E t \in Tracks : task[t].st = "Pending"

LaterSteps == {"configure_public_access", "add_custom_domain", "get_dns_zone",
               "create_dns_record_cdn", "create_dns_record_site",
               "build_static_site", "create_project", "upload_deployment"}

\* C6. Abort at the join: when publish is past the join loop and a task is
\* Failed, publish has returned the aggregate error, none of the later steps
\* was begun, and every object a task uploaded is still in the bucket.
C6_AbortAtJoin ==
    (PastJoin /\ \E t \in Spawned : task[t].st = "Failed") =>
        /\ pc = "done"
        /\ result = "uploads_failed"
        /\ \A i \in 1..Len(log) : log[i].call \notin LaterSteps \cup {"delete_object"}
        /\ \A t \in Spawned : task[t].st = "Succeeded" => r2_key(t) \in rObjects

\* publish aborted at the join with one object uploaded and one task Failed
C6_Witness ==
    /\ cmd = "publish" /\ pc = "done" /\ result = "uploads_failed"
    /\ \E t, u \in Spawned :
          /\ task[t].st = "Failed"
          /\ task[u].st = "Succeeded" /\ r2_key(u) \in rObjects

AuxCalls == {"configure_public_access", "add_custom_domain",
             "create_dns_record_cdn", "create_dns_record_site"}

\* an auxiliary call at place i of the log came after every upload succeeded
\* and before any site-bundle upload
AfterUploadsBeforeSite(i) ==
    /\ \A t \in Spawned : task[t].st = "Succeeded"
    /\ \A j \in 1..Len(log) : log[j].call = "upload_deployment" => i < j

\* C7 (as stated). Every auxiliary remote call of publish (CORS configuration,
\* bucket custom-domain setup, DNS record creation) is issued after all track
\* uploads have succeeded and before the site-bundle upload.
C7_AuxOrderingAsStated ==
    \A i \in 1..Len(log) : log[i].call \in AuxCalls => AfterUploadsBeforeSite(i)

\* C7 (amended). CORS configuration, bucket custom-domain setup and the DNS
\* record of the audio CDN domain are issued after all track uploads have
\* succeeded and before the site-bundle upload; the DNS record of the project
\* subdomain is issued after all track uploads have succeeded and after the
\* site-bundle upload has succeeded.
C7_AuxOrdering ==
    \A i \in 1..Len(log) :
        /\ log[i].call \in AuxCalls \ {"create_dns_record_site"}
              => AfterUploadsBeforeSite(i)
        /\ log[i].call = "create_dns_record_site"
              => /\ \A t \in Spawned : task[t].st = "Succeeded"
                 /\ \E j \in 1..(i - 1) :
                       log[j].call = "upload_deployment" /\ log[j].ok

\* a publish run that made all four auxiliary calls after uploading a track
C7_Witness ==
    /\ cmd = "publish"
    /\ \A c \in AuxCalls : Called(c)
    /\ Spawned # {}

\* C8. Idempotent project creation: a publish run calls create_project at
\* most once, only when its get_project lookup found no project, and never
\* against a project that exists; a run that found the project (created by an
\* earlier run) issues no create call.
C8_IdempotentProjectCreation ==
    /\ Count("create_project") <= 1
    /\ Called("create_project") => (cmd = "publish" /\ ~project_exists)
    /\ (cmd = "publish" /\ pc = "p_create_project") => ~rProject
    /\ (cmd = "publish" /\ project_exists) => rProject

\* a later run found the project an earlier run created, and uploaded the
\* site bundle without a create call
C8_Witness ==
    /\ cmd = "publish"
    /\ project_exists
    /\ CalledOk("upload_deployment")
    /\ ~Called("create_project")

\* C9. Teardown ordering: delete_bucket is issued only when every object and
\* every incomplete multipart upload of the bucket has been removed.
C9_TeardownOrdering ==
    (cmd = "teardown" /\ (pc = "t_delete_bucket" \/ Called("delete_bucket")))
        => (rObjects = {} /\ rMultiparts = {})

\* C10. Teardown independence: in a teardown that found both the project and
\* the bucket, the deletion of the one is attempted whenever the deletion of
\* the other is, whether or not that one failed.
C10_TeardownIndependence ==
    (cmd = "teardown" /\ pc = "done" /\ project_exists /\ bucket_exists)
        => (Called("delete_project") <=> Called("list_objects"))

\* derive_project_name has returned
Derived == cmd = "derive" /\ pc = "done"

\* a name of lowercase ASCII letters, digits and hyphens that neither begins
\* nor ends with a hyphen nor has two hyphens in a row
WellFormedName(n) ==
    /\ \A i \in 1..Len(n) : n[i] \in AsciiLowercase \cup AsciiDigit \cup {"-"}
    /\ n # <<>> => (n[1] # "-" /\ n[Len(n)] # "-")
    /\ \A i \in 1..(Len(n) - 1) : ~(n[i] = "-" /\ n[i + 1] = "-")

\* no character of s is an ASCII letter or digit once lowercased
NothingKept(s) ==
    \A i \in 1..Len(s) : to_lowercase_char(s[i]) \notin AsciiLowercase \cup AsciiDigit

\* C18. Project-name format: derive_project_name returns a string of
\* lowercase ASCII alphanumerics and hyphens with no leading, trailing or
\* consecutive hyphen, except that it returns exactly "-" when both inputs
\* slugify to empty.
C18_ProjectNameFormat ==
    Derived =>
        IF NothingKept(album.artist) /\ NothingKept(album.title)
        THEN project_name = <<"-">>
        ELSE WellFormedName(project_name)

\* C19 (as stated). Whenever the artist and the title are both non-empty
\* strings, the derived name is neither empty nor the bare separator "-".
C19_ProjectNameInvariantAsStated ==
    (Derived /\ album.artist # <<>> /\ album.title # <<>>)
        => project_name \notin {<<>>, <<"-">>}

\* C19 (amended). Whenever the artist or the title holds at least one
\* character that is an ASCII letter or digit once lowercased, the derived
\* name is neither empty nor the bare separator "-"; when neither does, the
\* derived name is exactly "-".
C19_ProjectNameInvariant ==
    Derived =>
        IF NothingKept(album.artist) /\ NothingKept(album.title)
        THEN project_name = <<"-">>
        ELSE project_name \notin {<<>>, <<"-">>}

\* a name was derived from a title of special characters only and an artist
\* name that keeps a letter
C19_Witness ==
    /\ Derived
    /\ album.title # <<>> /\ NothingKept(album.title)
    /\ ~NothingKept(album.artist)
    /\ project_name \notin {<<>>, <<"-">>}

DeleteCalls == {"delete_project", "delete_object", "abort_upload", "delete_bucket"}

\* C11. Teardown confirmation: a teardown run without the force flag issues a
\* delete call (project, object, multipart upload or bucket) only after a
\* prompt at which the line typed, trimmed, equals the derived project name.
C11_TeardownConfirmation ==
    (cmd = "teardown" /\ ~force) =>
        \A i \in 1..Len(log) :
            log[i].call \in DeleteCalls =>
                /\ trim(input) = project_name
                /\ project_name = derive_project_name(album.artist, album.title)
                /\ \E j \in 1..(i - 1) : log[j].call = "prompt" /\ log[j].ok

\* an unforced teardown deleted the project after the name was typed with
\* blanks around it
C11_Witness ==
    /\ cmd = "teardown" /\ ~force
    /\ CalledOk("delete_project")
    /\ Len(input) > Len(project_name) + 1

\* C12. Pre-flight validation: when the derived project name is the bare "-"
\* (derive_project_name never returns the empty string), publish, status and
\* teardown have failed with the project-name error without reading the
\* configuration, without any remote call and without a prompt.
C12_PreflightValidation ==
    /\ (cmd \in {"publish", "status", "teardown"} /\ project_name = <<"-">>) =>
          /\ pc = "done"
          /\ result = "invalid_project_name"
          /\ log = <<>>
    /\ (cmd \in {"publish", "status", "teardown"} /\ pc \notin {"p_parse", "s_parse", "t_parse", "done"})
          => project_name \notin {<<>>, <<"-">>}

\* a teardown on a manifest of special characters only has failed while the
\* account holds a project and a bucket with objects
C12_Witness ==
    /\ cmd = "teardown"
    /\ result = "invalid_project_name"
    /\ album.artist # <<>>
    /\ rProject /\ rBucket /\ rObjects # {}

\* what a command asks of the remote without changing it
Lookups == {"get_project", "get_bucket"}
\* everything in the log that is not a request to the remote
LocalSteps == {"load_config", "prompt", "build_static_site"}

\* C13 (as stated). In publish and in teardown the confirmation prompt
\* occurs before the command has issued any network request.
C13_PromptBeforeNetworkAsStated ==
    \A i \in 1..Len(log) :
        log[i].call = "prompt" =>
            \A j \in 1..(i - 1) : log[j].call \in LocalSteps

\* C13 (amended). In publish and in teardown the confirmation prompt occurs
\* after the existence lookups (get_project in publish; get_project and
\* get_bucket in teardown) and before every other network request: no
\* request that creates, changes, uploads or deletes anything precedes it,
\* and without the force flag every such request, and every upload task,
\* follows a prompt that was answered with a confirmation.
C13_PromptBeforeNetwork ==
    /\ \A i \in 1..Len(log) :
          log[i].call = "prompt" =>
              /\ \A j \in 1..(i - 1) : log[j].call \in Lookups \cup {"load_config"}
              /\ \E j \in 1..(i - 1) : log[j].call = "get_project" /\ log[j].ok
    /\ (cmd \in {"publish", "teardown"} /\ ~force) =>
          \A i \in 1..Len(log) :
              log[i].call \notin Lookups \cup LocalSteps =>
                  \E j \in 1..(i - 1) : log[j].call = "prompt" /\ log[j].ok
    /\ (cmd = "publish" /\ ~force /\ \E t \in Tracks : task[t].st # "NoTask")
          => CalledOk("prompt")

\* an unforced command prompted after its lookups and went on to change the
\* remote
C13_Witness ==
    /\ cmd \in {"publish", "teardown"} /\ ~force
    /\ CalledOk("prompt")
    /\ CalledOk("get_project")
    /\ CalledOk("create_bucket") \/ CalledOk("delete_project")

DnsRecordCalls == {"create_dns_record_cdn", "create_dns_record_site"}

\* C14. Best-effort DNS: a DNS record that cannot be created, for the audio
\* CDN domain or for the project subdomain, leaves a warning and does not end
\* publish: after the CDN record publish goes on to build the site, after the
\* subdomain record it returns success, and a run in which nothing but DNS
\* record creation failed returns success with the site bundle deployed.
C14_BestEffortDns ==
    /\ \A i \in 1..Len(log) :
          /\ (log[i].call = "create_dns_record_cdn" /\ ~log[i].ok) =>
                /\ "cdn_dns_record_creation_failed" \in warnings
                /\ i = Len(log) => (pc = "p_build" /\ result = "none")
          /\ (log[i].call = "create_dns_record_site" /\ ~log[i].ok) =>
                /\ "site_dns_record_creation_failed" \in warnings
                /\ i = Len(log) /\ pc = "done" /\ result = "ok"
    /\ (/\ cmd = "publish" /\ pc = "done"
        /\ \E i \in 1..Len(log) : log[i].call \in DnsRecordCalls /\ ~log[i].ok
        /\ \A i \in 1..Len(log) : ~log[i].ok => log[i].call \in DnsRecordCalls)
          => (result = "ok" /\ CalledOk("upload_deployment") /\ warnings # {})

\* publish returned success although neither DNS record could be created
C14_Witness ==
    /\ cmd = "publish" /\ pc = "done" /\ result = "ok"
    /\ \A c \in DnsRecordCalls : \E i \in 1..Len(log) : log[i].call = c /\ ~log[i].ok
    /\ CalledOk("upload_deployment")

\* C15. Asset base URL: the audio base URL handed to the site builder is the
\* custom CDN subdomain exactly when a base domain is configured and both the
\* bucket custom-domain setup and the DNS record creation succeeded; in every
\* other case it is the platform-default public URL.
C15_AssetBaseUrl ==
    (cmd = "publish" /\ Called("build_static_site")) =>
        IF /\ base_domain = "some"
           /\ CalledOk("add_custom_domain")
           /\ CalledOk("create_dns_record_cdn")
        THEN cdn_url = "custom"
        ELSE cdn_url = "default"

\* where publish is once the bucket step is behind it
AfterBucketPcs == {"p_audio_dir", "p_semaphore", "p_spawn", "p_join", "p_after_join"}
                      \cup AfterJoinPcs

\* C16. Bucket provisioning: publish calls create_bucket exactly when its
\* get_bucket lookup found no bucket, attempts the public-access (CORS)
\* configuration exactly when it created the bucket in this run, and goes on to
\* verify the bucket when that configuration fails.
C16_BucketProvisioning ==
    cmd = "publish" =>
        /\ Count("create_bucket") <= 1
        /\ Called("create_bucket") => (CalledOk("get_bucket") /\ ~bucket_exists)
        /\ pc = "p_create_bucket" => ~rBucket
        /\ bucket_exists => (rBucket /\ ~Called("create_bucket"))
        /\ pc \in AfterBucketPcs => (bucket_exists \/ CalledOk("create_bucket"))
        /\ Called("configure_public_access") => CalledOk("create_bucket")
        /\ pc \in AfterJoinPcs \ {"p_cors"} =>
              (Called("configure_public_access") <=> CalledOk("create_bucket"))
        /\ Count("configure_public_access") <= 1
        /\ \A i \in 1..Len(log) :
              (log[i].call = "configure_public_access" /\ ~log[i].ok) =>
                  /\ "cors_configuration_failed" \in warnings
                  /\ i = Len(log) => (pc = "p_verify" /\ result = "none")

\* publish created the bucket, could not configure its public access, and
\* returned success
C16_Witness ==
    /\ cmd = "publish" /\ pc = "done" /\ result = "ok"
    /\ CalledOk("create_bucket")
    /\ \E i \in 1..Len(log) : log[i].call = "configure_public_access" /\ ~log[i].ok

\* the tracks the spawn loop has come to
Visited == {t \in Tracks : audio_file_exists[t] # "unvisited"}

\* C17. Missing track files: publish builds an upload task for exactly those
\* manifest tracks whose source file exists on disk; a track whose file is
\* missing is skipped with a warning, adds nothing to the failure list, and
\* does not make publish fail.
C17_MissingTrackFiles ==
    cmd = "publish" =>
        /\ \A t \in Visited :
              /\ t \in Spawned <=> audio_file_exists[t] = "exists"
              /\ audio_file_exists[t] = "missing" =>
                    /\ "audio_file_not_found" \in warnings
                    /\ task[t] = NoTask
        /\ Len(failed_uploads) <= Cardinality({t \in Spawned : task[t].st = "Failed"})
        /\ (pc = "done" /\ Visited # {} /\ \A t \in Spawned : task[t].st = "Succeeded")
              => result \notin {"uploads_failed", "invalid_audio_filename"}

\* configure has read the stored credentials: `existing` is what it found
Loaded ==
    /\ cmd = "configure"
    /\ pc # "c_load"
    /\ ~(pc = "done" /\ result = "config_error")

\* the fields of a credentials file pass the format validation of their
\* kind; of the secret access key the program defines no format, only that
\* there is one
AllFieldsValid(c) ==
    /\ validate_api_token(c.api_token)
    /\ validate_account_id(c.account_id)
    /\ validate_r2_access_key(c.r2_access_key_id)
    /\ c.r2_secret_access_key # <<>>
    /\ c.base_domain # <<>> => validate_domain(c.base_domain[1])

ValidationErrors ==
    {"invalid_api_token", "invalid_account_id", "invalid_r2_access_key",
     "invalid_domain", "r2_access_key_required", "r2_secret_required"}

\* C20. Credential validation blocks save: in a run of configure the
\* credentials file is written only with an API token, account id, access key,
\* secret and base domain (when present) that pass their format validation,
\* and a run that ends on a validation failure leaves the stored file as it
\* found it.
C20_ValidationBlocksSave ==
    Loaded =>
        /\ (pc = "done" /\ result = "ok") => AllFieldsValid(config_file[1])
        /\ config_file # existing => AllFieldsValid(config_file[1])
        /\ (pc = "done" /\ result \in ValidationErrors) => config_file = existing

\* the second half alone: a validation failure leaves the stored file as
\* configure found it
ValidationFailureKeepsFile ==
    (Loaded /\ pc = "done" /\ result \in ValidationErrors) => config_file = existing

\* parse_album_toml_str has returned
Parsed == cmd = "parse" /\ pc = "done"

\* the paths of a manifest: every track's file and liner notes, the album's
\* liner notes
RawPaths(content) ==
    {content.liner_notes[i] : i \in 1..Len(content.liner_notes)}
        \cup {content.track[k].file : k \in 1..Len(content.track)}
        \cup UNION {{content.track[k].liner_notes[i] : i \in 1..Len(content.track[k].liner_notes)}
                       : k \in 1..Len(content.track)}

\* the paths an Album holds
AlbumPaths(a) ==
    {a.liner_notes[i] : i \in 1..Len(a.liner_notes)}
        \cup {a.tracks[k].file : k \in 1..Len(a.tracks)}
        \cup UNION {{a.tracks[k].liner_notes[i] : i \in 1..Len(a.tracks[k].liner_notes)}
                       : k \in 1..Len(a.tracks)}

\* the path has a piece ".." between two separators or ends of the path
HasDotDot(path) ==
    \E i \in 1..(Len(path) - 1) :
        /\ path[i] = "." /\ path[i + 1] = "."
        /\ i = 1 \/ path[i - 1] = "/"
        /\ i + 1 = Len(path) \/ path[i + 2] = "/"

\* the path is absolute, has a ".." component, or is empty or whitespace
Unsafe(path) ==
    \/ (path # <<>> /\ path[1] = "/")
    \/ HasDotDot(path)
    \/ \A i \in 1..Len(path) : path[i] \in Whitespace

FailedCall(name) == \E i \in 1..Len(log) : log[i].call = name /\ ~log[i].ok

\* teardown went past its confirmation
TeardownConfirmed == force \/ CalledOk("prompt")

\* what teardown tells the operator of each resource when it has ended
TeardownReports ==
    (cmd = "teardown" /\ pc = "done") =>
        /\ FailedCall("delete_project") => IsErr(result)
        /\ (FailedCall("list_objects") \/ FailedCall("delete_object")
                \/ FailedCall("list_multipart_uploads"))
              => "failed_to_empty_bucket" \in warnings
        /\ FailedCall("abort_upload") => "failed_to_abort_upload" \in warnings
        /\ FailedCall("delete_bucket") => "failed_to_delete_bucket" \in warnings
        /\ (TeardownConfirmed /\ result = "ok" /\ warnings = {})
              => /\ project_exists => ~rProject
                 /\ bucket_exists => ~rBucket

\* a step of teardown creates nothing in the remote
TeardownCreatesNothing ==
    cmd = "teardown" =>
        /\ rProject' => rProject
        /\ rBucket' => rBucket
        /\ rObjects' \subseteq rObjects
        /\ rMultiparts' \subseteq rMultiparts

FileRead(t) == task[t].attempt >= 1

\* where a task is, given the outcomes of the PUT requests it has issued
TaskStates ==
    \A t \in Tracks :
        /\ Len(task[t].puts) <= 5
        /\ (task[t].st \in Terminal /\ FileRead(t)) => Len(task[t].puts) \in 1..5
        /\ (task[t].st = "Failed" /\ FileRead(t))
              => (Len(task[t].puts) = 5 /\ \A i \in 1..5 : ~task[t].puts[i])
        /\ task[t].st = "Succeeded"
              <=> (\E i \in 1..Len(task[t].puts) : task[t].puts[i])
        /\ \A i \in 1..Len(task[t].puts) : task[t].puts[i] => i = Len(task[t].puts)

\* a task that is Succeeded or Failed stays as it is while the run lasts
TerminalIsFinal ==
    \A t \in Tracks :
        (task[t].st \in Terminal /\ cmd' = "publish") => task'[t] = task[t]

\* C23. Upload task state machine: a task whose file is read issues between 1
\* and 5 PUT attempts, is Failed only after 5 failed attempts, is Succeeded
\* from its first successful attempt on, and once Succeeded or Failed it
\* issues no PUT and changes no more.
C23_TaskStateMachine == []TaskStates /\ [][TerminalIsFinal]_vars

\* a task failed 5 times, a sibling succeeded at its third attempt, and the
\* run went on to its end
C23_Witness ==
    /\ cmd = "publish" /\ pc = "done"
    /\ \E t, u \in Tracks :
          /\ task[t].st = "Failed" /\ Len(task[t].puts) = 5
          /\ task[u].st = "Succeeded" /\ Len(task[u].puts) = 3

\* C24. Backoff schedule: a task that has failed its n-th PUT attempt, n from
\* 1 to 4, sleeps n seconds (1, 2, 3, 4) and then makes attempt n+1; a task
\* that has failed its 5th attempt does not sleep and is Failed.
C24_BackoffSchedule ==
    \A t \in Tracks :
        LET n == Len(task[t].puts) IN
        /\ task[t].st = "RetryWait" => (n \in 1..4 /\ task[t].sleep = n)
        /\ (n \in 1..4 /\ \A i \in 1..n : ~task[t].puts[i])
              => \/ task[t].st = "RetryWait" /\ task[t].sleep = n
                 \/ task[t].st = "InFlight" /\ task[t].attempt = n + 1 /\ task[t].sleep = 0
        /\ (n = 5 /\ \A i \in 1..n : ~task[t].puts[i])
              => (task[t].st = "Failed" /\ task[t].sleep = 0)

\* a task sleeps 4 seconds after its 4th failed attempt
C24_Witness ==
    \E t \in Tracks :
        /\ task[t].st = "RetryWait"
        /\ Len(task[t].puts) = 4
        /\ task[t].sleep = 4

OneShotCalls == {"create_bucket", "create_project", "add_custom_domain",
                 "configure_public_access", "upload_deployment",
                 "create_dns_record_cdn", "create_dns_record_site"}

OkBefore(name, i) == \E j \in 1..(i - 1) : log[j].call = name /\ log[j].ok

\* C26. Tail ordering of publish: the site is built after the asset base URL
\* is computed; the project is created only after a build that succeeded; the
\* site bundle is uploaded only after a build that succeeded and once the
\* project is known to exist (found by the lookup or created); after a failed
\* build or a failed project creation no site bundle is uploaded.
C26_TailOrdering ==
    cmd = "publish" =>
        /\ Called("build_static_site") => cdn_url \in {"custom", "default"}
        /\ \A i \in 1..Len(log) :
              /\ log[i].call = "create_project" => OkBefore("build_static_site", i)
              /\ log[i].call = "upload_deployment"
                    => /\ OkBefore("build_static_site", i)
                       /\ project_exists \/ OkBefore("create_project", i)
                       /\ rProject
        /\ (FailedCall("build_static_site") \/ FailedCall("create_project"))
              => ~Called("upload_deployment")

\* the site bundle was uploaded to a project this run created, with the
\* custom asset base URL
C26_Witness ==
    /\ cmd = "publish"
    /\ cdn_url = "custom"
    /\ CalledOk("create_project")
    /\ CalledOk("upload_deployment")

\* C27. Termination of the upload stage: for every concurrency value given,
\* the smallest included, and every number of tasks, when every task that can
\* step does and every PUT is answered, publish leaves the join over its
\* upload tasks: it aborts or goes on to the next step.
C27_UploadStageTerminates ==
    (cmd = "publish" /\ pc = "p_join")
        ~> (cmd = "publish" /\ pc \in {"p_cors", "done"})

\* C28. Distinct object keys: two different tracks of the manifest whose
\* files exist are uploaded under two different object keys.
C28_DistinctObjectKeys ==
    cmd = "publish" =>
        \A t, u \in Spawned : t # u => r2_key(t) # r2_key(u)

\* the operator was prompted and did not answer y
Declined == cmd = "publish" /\ FailedCall("prompt")

\* the run has issued nothing but lookups and the prompt, and spawned no task
OnlyLookedUp ==
    /\ \A i \in 1..Len(log) : log[i].call \in {"load_config", "get_project", "prompt"}
    /\ \A t \in Tracks : task[t] = NoTask

\* C29. Declined publish: when force is not set and the answer at the prompt
\* is not y or Y, publish returns having issued no request but its lookups:
\* no bucket or project is created, no object or site bundle uploaded, no DNS
\* record or custom domain created, and the remote is as the run found it.
C29_DeclinedPublish ==
    /\ [](Declined => (~force /\ pc = "done" /\ result \in {"ok", "io"} /\ OnlyLookedUp))
    /\ [][(cmd' = "publish" /\ OnlyLookedUp') => remote' = remote]_vars

\* the operator answered n to a publish over a deployment that exists
C29_Witness ==
    /\ Declined
    /\ result = "ok"
    /\ rProject /\ rBucket /\ rObjects # {}

\* the task failed to read its file
ReadFailed(t) == task[t].st = "Failed" /\ task[t].attempt = 0

\* C30. File-read failure of an upload task: a task whose file cannot be read
\* is Failed with no PUT attempt, holds no permit (the permits out are those
\* of the tasks reading, in a PUT or in a backoff sleep), and once publish is
\* past the join its error is in the failure list and publish has returned
\* the aggregate error.
C30_FileReadFailure ==
    /\ TasksRun => permits + Cardinality(Holders) = max_concurrent_uploads
    /\ \A t \in Tracks :
          ReadFailed(t) =>
              /\ task[t].puts = <<>>
              /\ task[t].sleep = 0
              /\ PastJoin =>
                    /\ \E i \in 1..Len(failed_uploads) :
                          failed_uploads[i] = <<"Failed to read file for upload">>
                    /\ pc = "done" /\ result = "uploads_failed"

\* with one permit in the pool a task failed to read its file and its sibling
\* went on to upload
C30_Witness ==
    /\ concurrency = <<1>>
    /\ PastJoin
    /\ \E t, u \in Spawned : ReadFailed(t) /\ task[u].st = "Succeeded"

====
